---- MODULE Spec2Model ----
(***************************************************************************)
(* Voice-assisted teacher workload system: the voice-command core          *)
(* (src/voice_processor.py) and the record store (src/database.py).        *)
(*                                                                         *)
(* A Python str is a sequence of one-character strings.  Characters that   *)
(* are not ASCII are written by name: "endash" (U+2013), "emdash"          *)
(* (U+2014), "acirc" (U+00E2), "euro" (U+20AC), "ldquo" (U+201C),          *)
(* "rdquo" (U+201D).                                                       *)
(***************************************************************************)
EXTENDS Integers, Sequences, FiniteSets, TLC

VARIABLES
    usn_prefix,   \* VoiceProcessor.usn_prefix
    students,     \* table students: rows [id, usn, name] in rowid order
    student_seq,  \* AUTOINCREMENT counter of table students
    attendance,   \* table attendance: rows [student_id, date, status]
    ia_marks,     \* table ia_marks: rows [student_id, ia_type, q, total]
    arg,          \* the arguments of the last call
    ret,          \* what the last call returned
    calls         \* the collaborators the last command called, in order

vars == <<usn_prefix, students, student_seq, attendance, ia_marks, arg, ret, calls>>

None == [none |-> TRUE]

-----------------------------------------------------------------------------
(* Characters and str methods                                              *)

LowerLetters == <<"a","b","c","d","e","f","g","h","i","j","k","l","m",
                  "n","o","p","q","r","s","t","u","v","w","x","y","z">>
UpperLetters == <<"A","B","C","D","E","F","G","H","I","J","K","L","M",
                  "N","O","P","Q","R","S","T","U","V","W","X","Y","Z">>
DigitChars == <<"0","1","2","3","4","5","6","7","8","9">>

Range(f) == {f[i] : i \in DOMAIN f}

\* \d, \s and \w of Python's re on str patterns
ReDigit == Range(DigitChars)
ReSpace == {" "}
ReWord == Range(LowerLetters) \cup Range(UpperLetters) \cup ReDigit \cup {"_", "acirc"}

\* str.lower() of one character
LowerChar(c) ==
    IF c \in Range(UpperLetters)
    THEN LowerLetters[CHOOSE i \in 1..26 : UpperLetters[i] = c]
    ELSE c

\* str.lower()
lower(s) == <<>> \o [i \in 1..Len(s) |-> LowerChar(s[i])]

Min(S) == CHOOSE x \in S : \A y \in S : x <= y
Max(S) == CHOOSE x \in S : \A y \in S : x >= y

\* str.strip()
strip(s) ==
    LET inked == {i \in 1..Len(s) : s[i] \notin ReSpace}
    IN IF inked = {} THEN <<>> ELSE SubSeq(s, Min(inked), Max(inked))

\* str.isdigit()
isdigit(s) == s # <<>> /\ \A i \in 1..Len(s) : s[i] \in ReDigit

\* str.endswith(c) for a one-character suffix
endswith(s, c) == s # <<>> /\ s[Len(s)] = c

DigitVal(c) == (CHOOSE i \in 1..10 : DigitChars[i] = c) - 1

\* int(s) of a digit string
RECURSIVE int(_)
int(s) == IF s = <<>> THEN 0 ELSE 10 * int(SubSeq(s, 1, Len(s) - 1)) + DigitVal(s[Len(s)])

\* str.split(): the maximal runs of non-whitespace, in order
split(s) ==
    LET inked(i) == i >= 1 /\ i <= Len(s) /\ s[i] \notin ReSpace
        starts == {i \in 1..Len(s) : inked(i) /\ ~inked(i - 1)}
        ends == {i \in 1..Len(s) : inked(i) /\ ~inked(i + 1)}
        kth(S, k) == CHOOSE i \in S : Cardinality({j \in S : j < i}) = k - 1
    IN <<>> \o [k \in 1..Cardinality(starts) |->
                    SubSeq(s, kth(starts, k), kth(ends, k))]

\* ' '.join(parts)
RECURSIVE join(_)
join(parts) ==
    IF parts = <<>> THEN <<>>
    ELSE IF Len(parts) = 1 THEN parts[1]
    ELSE parts[1] \o <<" ">> \o join(Tail(parts))

-----------------------------------------------------------------------------
(* Python's re: a backtracking matcher.  A pattern is a sequence of items:  *)
(*   lit   a literal word                                                   *)
(*   set   one character class with a quantifier {min,max}, greedy or lazy  *)
(*   alt   alternatives (each a pattern), tried in order                    *)
(*   open / close   the bounds of capture group g                           *)
(*   bol   ^                                                                *)
(*   nla   (?!class)                                                        *)
(* All patterns of the program are compiled with re.IGNORECASE.            *)

One(S)      == [k |-> "set", cls |-> S, min |-> 1, max |-> 1, greedy |-> TRUE]
Opt(S)      == [k |-> "set", cls |-> S, min |-> 0, max |-> 1, greedy |-> TRUE]
Star(S)     == [k |-> "set", cls |-> S, min |-> 0, max |-> -1, greedy |-> TRUE]
Plus(S)     == [k |-> "set", cls |-> S, min |-> 1, max |-> -1, greedy |-> TRUE]
LazyStar(S) == [k |-> "set", cls |-> S, min |-> 0, max |-> -1, greedy |-> FALSE]
LazyPlus(S) == [k |-> "set", cls |-> S, min |-> 1, max |-> -1, greedy |-> FALSE]
Between(S, lo, hi) == [k |-> "set", cls |-> S, min |-> lo, max |-> hi, greedy |-> TRUE]
Alt(as)     == [k |-> "alt", alts |-> as]
Open(g)     == [k |-> "open", g |-> g]
Close(g)    == [k |-> "close", g |-> g]
Bol         == [k |-> "bol"]
NotAhead(S) == [k |-> "nla", cls |-> S]

Lit(w) == <<[k |-> "lit", w |-> w]>>
Group(g, items) == <<Open(g)>> \o items \o <<Close(g)>>

NoCaps == <<<<0, 0>>, <<0, 0>>>>
NoMatch == [ok |-> FALSE, start |-> 0, end |-> 0, caps |-> NoCaps]

\* re.IGNORECASE: the patterns are written in lower case
CharIn(c, S) == c \in S \/ LowerChar(c) \in S

\* how many characters from position p on are in class S, at most max
\* (max = -1: no upper bound)
RunLen(S, s, p, max) ==
    LET stops == {i \in p..Len(s) : ~CharIn(s[i], S)}
        run == (IF stops = {} THEN Len(s) + 1 ELSE Min(stops)) - p
    IN IF max >= 0 /\ run > max THEN max ELSE run

\* whether the literal w stands at position p
LitAt(w, s, p) ==
    /\ p + Len(w) - 1 <= Len(s)
    /\ \A i \in 1..Len(w) : LowerChar(s[p + i - 1]) = w[i]

RECURSIVE MatchHere(_, _, _, _)
RECURSIVE TryAlts(_, _, _, _, _)

\* item `it` taking n characters (min <= n <= run), then the rest: the first n
\* in backtracking order (greedy: longest first, lazy: shortest first) after
\* which the rest matches
TryCounts(it, rest, s, p, caps, run) ==
    LET tries == {[n |-> n, r |-> MatchHere(rest, s, p + n, caps)] : n \in it.min..run}
        good == {t \in tries : t.r.ok}
        best == IF it.greedy THEN CHOOSE t \in good : \A u \in good : t.n >= u.n
                ELSE CHOOSE t \in good : \A u \in good : t.n <= u.n
    IN IF good = {} THEN [ok |-> FALSE, start |-> 0, end |-> 0, caps |-> caps]
       ELSE best.r

\* the first match, in backtracking order, of `items` at position p of s
MatchHere(items, s, p, caps) ==
    IF items = <<>> THEN [ok |-> TRUE, start |-> 0, end |-> p, caps |-> caps]
    ELSE LET it == Head(items)
             rest == Tail(items)
             fail == [ok |-> FALSE, start |-> 0, end |-> 0, caps |-> caps]
         IN CASE it.k = "lit" ->
                   IF LitAt(it.w, s, p) THEN MatchHere(rest, s, p + Len(it.w), caps)
                   ELSE fail
              [] it.k = "set" ->
                   LET run == RunLen(it.cls, s, p, it.max)
                   IN IF run < it.min THEN fail
                      ELSE TryCounts(it, rest, s, p, caps, run)
              [] it.k = "alt" -> TryAlts(it.alts, rest, s, p, caps)
              [] it.k = "open" ->
                   MatchHere(rest, s, p, [caps EXCEPT ![it.g] = <<p, p>>])
              [] it.k = "close" ->
                   MatchHere(rest, s, p, [caps EXCEPT ![it.g] = <<caps[it.g][1], p>>])
              [] it.k = "bol" ->
                   IF p = 1 THEN MatchHere(rest, s, p, caps) ELSE fail
              [] it.k = "nla" ->
                   IF p <= Len(s) /\ CharIn(s[p], it.cls) THEN fail
                   ELSE MatchHere(rest, s, p, caps)

TryAlts(alts, rest, s, p, caps) ==
    IF alts = <<>> THEN [ok |-> FALSE, start |-> 0, end |-> 0, caps |-> caps]
    ELSE LET r == MatchHere(Head(alts) \o rest, s, p, caps)
         IN IF r.ok THEN r ELSE TryAlts(Tail(alts), rest, s, p, caps)

\* re.search from position `from`: the leftmost match
SearchFrom(items, s, from) ==
    LET tries == {[n |-> p, r |-> MatchHere(items, s, p, NoCaps)] : p \in from..(Len(s) + 1)}
        good == {t \in tries : t.r.ok}
        first == CHOOSE t \in good : \A u \in good : t.n <= u.n
    IN IF good = {} THEN NoMatch ELSE [first.r EXCEPT !.start = first.n]

search(items, s) == SearchFrom(items, s, 1)

\* match.group(g)
group(s, m, g) == SubSeq(s, m.caps[g][1], m.caps[g][2] - 1)

\* re.finditer: the non-overlapping matches, left to right
RECURSIVE FindFrom(_, _, _)
FindFrom(items, s, from) ==
    LET m == SearchFrom(items, s, from)
    IN IF ~m.ok THEN <<>>
       ELSE <<m>> \o FindFrom(items, s, IF m.end > m.start THEN m.end ELSE m.end + 1)

finditer(items, s) == FindFrom(items, s, 1)

-----------------------------------------------------------------------------
(* voice_processor.py: the words of its patterns and word lists              *)

w_usn      == <<"u","s","n">>
w_is       == <<"i","s">>
w_has      == <<"h","a","s">>
w_have     == <<"h","a","v","e">>
w_had      == <<"h","a","d">>
w_scored   == <<"s","c","o","r","e","d">>
w_present  == <<"p","r","e","s","e","n","t">>
w_absent   == <<"a","b","s","e","n","t">>
w_question == <<"q","u","e","s","t","i","o","n">>
w_q        == <<"q">>
w_mark     == <<"m","a","r","k">>
w_marks    == <<"m","a","r","k","s">>
w_in       == <<"i","n">>
w_ia       == <<"i","a">>
w_ia1      == <<"i","a","1">>
w_ia2      == <<"i","a","2">>
w_i        == <<"i">>
w_as       == <<"a","s">>
w_a        == <<"a">>
w_the      == <<"t","h","e">>

\* [\s\-...]: whitespace, the hyphen and the four characters the source file
\* holds between the hyphen and the bracket (U+00E2, U+20AC, U+201C, U+201D)
SepClass == ReSpace \cup {"-", "acirc", "euro", "ldquo", "rdquo"}

-----------------------------------------------------------------------------
(* VoiceProcessor._expand_usn                                               *)

\* the mutant: the trailing "0" of the prefix is kept for 3 digits
ExpandUsnKeepsZero(prefix, digits) ==
    IF prefix = <<>> THEN digits ELSE prefix \o digits

_expand_usn(prefix, digits) ==
    IF prefix = <<>> THEN digits
    ELSE IF endswith(prefix, "0") /\ Len(digits) = 3
         THEN SubSeq(prefix, 1, Len(prefix) - 1) \o digits
         ELSE prefix \o digits

-----------------------------------------------------------------------------
(* VoiceProcessor.extract_identifier.  An Optional[str] is the record       *)
(* [some, val]; Python's None is NoStr.                                     *)

NoStr == [some |-> FALSE, val |-> <<>>]
Some(v) == [some |-> TRUE, val |-> v]

\* Python's truth value of an Optional[str]
Truthy(o) == o.some /\ o.val # <<>>

noise_words == {w_i, w_scored, w_as, w_a, w_the, w_has, w_have, w_had}

keywords == {w_is, w_has, w_have, w_scored, w_marks, w_mark, w_ia1, w_ia2,
             w_question, w_i}

usn_pattern == Lit(w_usn) \o <<Plus(ReSpace)>> \o Group(1, <<Plus(ReWord)>>)

digit_pattern ==
    <<Bol>> \o Group(1, <<Between(ReDigit, 2, 3)>>) \o <<Plus(ReSpace)>>
        \o Group(2, <<Alt(<<Lit(w_is), Lit(w_has), Lit(w_scored)>>)>>)

NameSpan == Group(1, <<LazyPlus(ReWord \cup ReSpace)>>)

status_pattern ==
    <<Bol>> \o NameSpan \o <<Plus(ReSpace)>> \o Lit(w_is) \o <<Plus(ReSpace)>>
        \o Group(2, <<Alt(<<Lit(w_present), Lit(w_absent)>>)>>)

marks_patterns == <<
    <<Bol>> \o NameSpan \o <<Plus(ReSpace)>>
        \o <<Alt(<<Lit(w_has) \o <<Plus(ReSpace)>>, <<>>>>)>> \o Lit(w_scored),
    <<Bol>> \o NameSpan \o <<Plus(ReSpace)>> \o Lit(w_has) \o <<Plus(ReSpace)>>,
    <<Bol>> \o NameSpan \o <<Plus(ReSpace)>> \o Lit(w_ia) \o <<One({"1", "2"})>> >>

\* [w for w in words if w.lower() not in noise_words]
RECURSIVE DropNoise(_)
DropNoise(words) ==
    IF words = <<>> THEN <<>>
    ELSE (IF lower(Head(words)) \in noise_words THEN <<>> ELSE <<Head(words)>>)
             \o DropNoise(Tail(words))

\* the mutant: the stop-words are dropped also when nothing is left
CleanNameAlwaysStripped(span) == join(DropNoise(split(strip(span))))

\* the cleaning of a captured name span (lines 224-227 and 241-244)
CleanName(span) ==
    LET name == strip(span)
        name_parts == DropNoise(split(name))
    IN IF name_parts # <<>> THEN join(name_parts) ELSE name

\* the first of the marks_patterns that matches, from pattern i on
RECURSIVE FirstMarksPattern(_, _)
FirstMarksPattern(text, i) ==
    IF i > Len(marks_patterns) THEN NoMatch
    ELSE LET m == search(marks_patterns[i], text)
         IN IF m.ok THEN m ELSE FirstMarksPattern(text, i + 1)

\* the mutant: numbers are kept as name-like words
RECURSIVE WordsBeforeKeywordWithNumbers(_)
WordsBeforeKeywordWithNumbers(words) ==
    IF words = <<>> THEN <<>>
    ELSE LET word == Head(words)
         IN IF lower(word) \in keywords THEN <<>>
            ELSE (IF lower(word) \notin noise_words /\ Len(word) > 1
                  THEN <<word>> ELSE <<>>)
                     \o WordsBeforeKeywordWithNumbers(Tail(words))

\* Pattern 4: the name-like words before the first keyword
RECURSIVE WordsBeforeKeyword(_)
WordsBeforeKeyword(words) ==
    IF words = <<>> THEN <<>>
    ELSE LET word == Head(words)
         IN IF lower(word) \in keywords THEN <<>>
            ELSE (IF lower(word) \notin noise_words /\ Len(word) > 1 /\ ~isdigit(word)
                  THEN <<word>> ELSE <<>>) \o WordsBeforeKeyword(Tail(words))

\* the mutant: the name before "is present" or "is absent" is looked for
\* first, the "usn" token after it
ExtractIdentifierNameFirst(text, prefix) ==
    LET m1 == search(usn_pattern, text)
        usn_part == group(text, m1, 1)
        m15 == search(digit_pattern, text)
        m2 == search(status_pattern, text)
        m3 == FirstMarksPattern(text, 1)
        identifier_words == WordsBeforeKeyword(split(text))
    IN IF m2.ok THEN Some(CleanName(group(text, m2, 1)))
       ELSE IF m1.ok
       THEN (IF isdigit(usn_part) /\ Len(usn_part) <= 3 /\ prefix # <<>>
             THEN Some(_expand_usn(prefix, usn_part))
             ELSE Some(usn_part))
       ELSE IF prefix # <<>> /\ m15.ok
       THEN Some(_expand_usn(prefix, group(text, m15, 1)))
       ELSE IF m3.ok THEN Some(CleanName(group(text, m3, 1)))
       ELSE IF identifier_words # <<>> THEN Some(join(identifier_words))
       ELSE NoStr

\* the mutant: the token after "usn" is returned as it is, never expanded
ExtractIdentifierUsnVerbatim(text, prefix) ==
    LET m1 == search(usn_pattern, text)
        m15 == search(digit_pattern, text)
        m2 == search(status_pattern, text)
        m3 == FirstMarksPattern(text, 1)
        identifier_words == WordsBeforeKeyword(split(text))
    IN IF m1.ok THEN Some(group(text, m1, 1))
       ELSE IF prefix # <<>> /\ m15.ok
       THEN Some(_expand_usn(prefix, group(text, m15, 1)))
       ELSE IF m2.ok THEN Some(CleanName(group(text, m2, 1)))
       ELSE IF m3.ok THEN Some(CleanName(group(text, m3, 1)))
       ELSE IF identifier_words # <<>> THEN Some(join(identifier_words))
       ELSE NoStr

extract_identifier(text, prefix) ==
    LET m1 == search(usn_pattern, text)
        usn_part == group(text, m1, 1)
        m15 == search(digit_pattern, text)
        m2 == search(status_pattern, text)
        m3 == FirstMarksPattern(text, 1)
        identifier_words == WordsBeforeKeyword(split(text))
    IN IF m1.ok
       THEN (IF isdigit(usn_part) /\ Len(usn_part) <= 3 /\ prefix # <<>>
             THEN Some(_expand_usn(prefix, usn_part))
             ELSE Some(usn_part))
       ELSE IF prefix # <<>> /\ m15.ok
       THEN Some(_expand_usn(prefix, group(text, m15, 1)))
       ELSE IF m2.ok THEN Some(CleanName(group(text, m2, 1)))
       ELSE IF m3.ok THEN Some(CleanName(group(text, m3, 1)))
       ELSE IF identifier_words # <<>> THEN Some(join(identifier_words))
       ELSE NoStr

-----------------------------------------------------------------------------
(* VoiceProcessor.extract_attendance_status                                 *)

\* Python's `w in text` for strings
Contains(text, w) ==
    \E i \in 1..(Len(text) - Len(w) + 1) : SubSeq(text, i, i + Len(w) - 1) = w

\* the mutant: "absent" is looked for first
ExtractStatusAbsentFirst(text) ==
    IF Contains(text, w_absent) THEN "Absent"
    ELSE IF Contains(text, w_present) THEN "Present"
    ELSE "None"

extract_attendance_status(text) ==
    IF Contains(text, w_present) THEN "Present"
    ELSE IF Contains(text, w_absent) THEN "Absent"
    ELSE "None"

-----------------------------------------------------------------------------
(* VoiceProcessor.fix_transcription_errors                                  *)

\* f"question {digit1} {digit2} marks", or the matched text unchanged
replace_question_number(s, m) ==
    LET full_text == SubSeq(s, m.start, m.end - 1)
        two_digit == group(s, m, 1)
        digit1 == DigitVal(two_digit[1])
        digit2 == DigitVal(two_digit[2])
    IN IF 1 <= digit1 /\ digit1 <= 8 /\ 0 <= digit2 /\ digit2 <= 10
       THEN w_question \o <<" ", DigitChars[digit1 + 1], " ", DigitChars[digit2 + 1], " ">>
                \o w_marks
       ELSE full_text

\* re.sub(pattern, replace_question_number, s): from position `from` on
RECURSIVE SubFrom(_, _, _)
SubFrom(items, s, from) ==
    LET m == SearchFrom(items, s, from)
    IN IF ~m.ok THEN SubSeq(s, from, Len(s))
       ELSE SubSeq(s, from, m.start - 1) \o replace_question_number(s, m)
                \o SubFrom(items, s, m.end)

fix_pattern_mark ==
    Lit(w_question) \o <<Star(ReSpace)>> \o Group(1, <<Between(ReDigit, 2, 2)>>)
        \o <<Star(ReSpace)>> \o Lit(w_mark)

fix_pattern_bare ==
    Lit(w_question) \o <<Star(ReSpace)>> \o Group(1, <<Between(ReDigit, 2, 2)>>)
        \o <<NotAhead(ReDigit)>>

fix_transcription_errors(text) ==
    SubFrom(fix_pattern_bare, SubFrom(fix_pattern_mark, text, 1), 1)

-----------------------------------------------------------------------------
(* VoiceProcessor.extract_marks.  A pattern carries what line 305 reads of  *)
(* its text: whether it holds 'mark', and the index of 'question' and of    *)
(* the first '(\d+)' in it (-1: absent).                                    *)

Num(g) == Group(g, <<Plus(ReDigit)>>)
MarkS == Lit(w_mark) \o <<Opt({"s"})>>
InQuestion ==
    <<Plus(ReSpace)>> \o Lit(w_in) \o <<Plus(ReSpace)>> \o Lit(w_question)
        \o <<Plus(ReSpace)>> \o Num(2)

\* the mutant: without the pattern "q1-8", a short item needs its "mark"
PatternsWithoutShort == <<
    [re |-> Lit(w_question) \o <<Star(ReSpace)>> \o Num(1) \o <<Star(ReSpace)>>
              \o Lit(<<",">>) \o <<Star(ReSpace)>> \o Num(2) \o <<Star(ReSpace)>>
              \o MarkS,
     has_mark |-> TRUE, question_at |-> 0, group_at |-> 11],
    [re |-> Lit(w_question) \o <<Star(ReSpace)>> \o Num(1) \o <<Star(SepClass)>>
              \o Num(2) \o <<Star(ReSpace)>> \o Lit(w_mark),
     has_mark |-> TRUE, question_at |-> 0, group_at |-> 11],
    [re |-> Lit(w_question) \o <<Star(ReSpace)>> \o Num(1) \o <<Plus(SepClass)>>
              \o Num(2) \o <<NotAhead(ReDigit)>>,
     has_mark |-> FALSE, question_at |-> 0, group_at |-> 11],
    [re |-> Lit(w_q) \o Num(1) \o <<Plus(SepClass)>> \o Num(2) \o <<Star(ReSpace)>>
              \o Lit(w_mark),
     has_mark |-> TRUE, question_at |-> -1, group_at |-> 1],
    [re |-> Num(1) \o <<Star(ReSpace)>> \o MarkS \o InQuestion,
     has_mark |-> TRUE, question_at |-> 24, group_at |-> 0],
    [re |-> Lit(w_scored) \o <<LazyStar(ReSpace \cup ReWord)>> \o Num(1)
              \o <<Star(ReSpace)>> \o MarkS \o InQuestion,
     has_mark |-> TRUE, question_at |-> 38, group_at |-> 14] >>

patterns == <<
    [re |-> Lit(w_question) \o <<Star(ReSpace)>> \o Num(1) \o <<Star(ReSpace)>>
              \o Lit(<<",">>) \o <<Star(ReSpace)>> \o Num(2) \o <<Star(ReSpace)>>
              \o MarkS,
     has_mark |-> TRUE, question_at |-> 0, group_at |-> 11],
    [re |-> Lit(w_question) \o <<Star(ReSpace)>> \o Num(1) \o <<Star(SepClass)>>
              \o Num(2) \o <<Star(ReSpace)>> \o Lit(w_mark),
     has_mark |-> TRUE, question_at |-> 0, group_at |-> 11],
    [re |-> Lit(w_question) \o <<Star(ReSpace)>> \o Num(1) \o <<Plus(SepClass)>>
              \o Num(2) \o <<NotAhead(ReDigit)>>,
     has_mark |-> FALSE, question_at |-> 0, group_at |-> 11],
    [re |-> Lit(w_q) \o Num(1) \o <<Plus(SepClass)>> \o Num(2) \o <<Star(ReSpace)>>
              \o Lit(w_mark),
     has_mark |-> TRUE, question_at |-> -1, group_at |-> 1],
    [re |-> Lit(w_q) \o Num(1) \o <<Plus(SepClass)>> \o Num(2) \o <<NotAhead(ReDigit)>>,
     has_mark |-> FALSE, question_at |-> -1, group_at |-> 1],
    [re |-> Num(1) \o <<Star(ReSpace)>> \o MarkS \o InQuestion,
     has_mark |-> TRUE, question_at |-> 24, group_at |-> 0],
    [re |-> Lit(w_scored) \o <<LazyStar(ReSpace \cup ReWord)>> \o Num(1)
              \o <<Star(ReSpace)>> \o MarkS \o InQuestion,
     has_mark |-> TRUE, question_at |-> 38, group_at |-> 14] >>

flexible_pattern ==
    Num(1) \o <<LazyStar(ReSpace \cup ReWord)>> \o Lit(w_question) \o <<Star(ReSpace)>>
        \o Num(2)

\* line 305: the pattern reads "marks in question N", marks first
MarksFirst(p) == p.has_mark /\ p.question_at >= 0 /\ p.question_at > p.group_at

\* the mutant: the first score said for a question stays
PutIfAbsent(d, q, m) == d @@ (q :> m)

\* marks_dict[question_num] = marks
Put(d, q, m) == (q :> m) @@ d

\* the mutant: no range check on what a match holds
StoreUnchecked(d, question_num, marks) == Put(d, question_num, marks)

\* lines 314-315 and 325-326
StoreIfInRange(d, question_num, marks) ==
    IF 1 <= question_num /\ question_num <= 8 /\ 0 <= marks /\ marks <= 10
    THEN Put(d, question_num, marks)
    ELSE d

\* the matches of one pattern, left to right
RECURSIVE ApplyMatches(_, _, _, _)
ApplyMatches(text, marks_first, ms, d) ==
    IF ms = <<>> THEN d
    ELSE LET g1 == int(group(text, Head(ms), 1))
             g2 == int(group(text, Head(ms), 2))
         IN ApplyMatches(text, marks_first, Tail(ms),
                         IF marks_first THEN StoreIfInRange(d, g2, g1)
                         ELSE StoreIfInRange(d, g1, g2))

\* the mutant: a pattern that matched ends the scan
RECURSIVE ApplyPatternsUntilMatch(_, _, _)
ApplyPatternsUntilMatch(text, i, d) ==
    IF i > Len(patterns) THEN d
    ELSE IF finditer(patterns[i].re, text) # <<>>
         THEN ApplyMatches(text, MarksFirst(patterns[i]), finditer(patterns[i].re, text), d)
         ELSE ApplyPatternsUntilMatch(text, i + 1, d)

\* the patterns in their order, from pattern i on
RECURSIVE ApplyPatterns(_, _, _)
ApplyPatterns(text, i, d) ==
    IF i > Len(patterns) THEN d
    ELSE ApplyPatterns(text, i + 1,
             ApplyMatches(text, MarksFirst(patterns[i]),
                          finditer(patterns[i].re, text), d))

extract_marks(raw) ==
    LET text == fix_transcription_errors(raw)
        marks_dict == ApplyPatterns(text, 1, <<>>)
    IN IF DOMAIN marks_dict = {}
       THEN ApplyMatches(text, TRUE, finditer(flexible_pattern, text), <<>>)
       ELSE marks_dict

\* sum(marks_dict.values())
RECURSIVE SumOver(_, _)
SumOver(d, keys) ==
    IF keys = {} THEN 0
    ELSE LET k == CHOOSE x \in keys : TRUE IN d[k] + SumOver(d, keys \ {k})

sum_values(d) == SumOver(d, DOMAIN d)

-----------------------------------------------------------------------------
(* database.py: DatabaseManager.fuzzy_find_student.  rapidfuzz's fuzz.ratio  *)
(* is the normalized Indel similarity 100 * 2*LCS(a,b) / (len(a)+len(b)),    *)
(* kept here as the fraction [num, den].                                     *)

score_cutoff == 70

\* one row of the LCS table: row[j] = LCS(a[1..i], b[1..j]), from row i-1
RECURSIVE LcsRow(_, _, _, _)
LcsRow(prev, c, b, acc) ==
    LET j == Len(acc) + 1
        left == IF j = 1 THEN 0 ELSE acc[j - 1]
        diag == IF j = 1 THEN 0 ELSE prev[j - 1]
        cell == IF c = b[j] THEN diag + 1
                ELSE IF prev[j] >= left THEN prev[j] ELSE left
    IN IF j > Len(b) THEN acc ELSE LcsRow(prev, c, b, Append(acc, cell))

RECURSIVE LcsRows(_, _, _, _)
LcsRows(a, b, i, prev) ==
    IF i > Len(a) THEN prev ELSE LcsRows(a, b, i + 1, LcsRow(prev, a[i], b, <<>>))

\* the length of the longest common subsequence of a and b
Lcs(a, b) ==
    IF a = <<>> \/ b = <<>> THEN 0
    ELSE LcsRows(a, b, 1, <<>> \o [j \in 1..Len(b) |-> 0])[Len(b)]

\* fuzz.ratio(a, b) as a fraction of 100
ratio(a, b) ==
    IF Len(a) + Len(b) = 0 THEN [num |-> 100, den |-> 1]
    ELSE [num |-> 200 * Lcs(a, b), den |-> Len(a) + Len(b)]

Greater(x, y) == x.num * y.den > y.num * x.den
AtLeast(x, n) == x.num >= n * x.den

\* the keys of `choices` as the loop of lines 133-136 assigns them
AssignedKeys(rows) ==
    <<>> \o [i \in 1..(2 * Len(rows)) |->
                IF i % 2 = 1 THEN lower(rows[(i + 1) \div 2].usn)
                ELSE lower(rows[i \div 2].name)]

\* process.extractOne(query, choices.keys(), scorer=fuzz.ratio,
\* score_cutoff=70): the position of the first key of the highest score, if
\* that score reaches the cutoff; 0 if none does.  A key keeps the place of
\* its first assignment.
extractOne(query, keys, cutoff) ==
    LET firsts == {i \in DOMAIN keys : \A j \in 1..(i - 1) : keys[j] # keys[i]}
        scored == {[at |-> i, score |-> ratio(query, keys[i])] : i \in firsts}
        best == CHOOSE x \in scored :
                    \A y \in scored : ~Greater(y.score, x.score)
                        /\ (y.at < x.at => Greater(x.score, y.score))
    IN IF scored = {} THEN 0
       ELSE IF AtLeast(best.score, cutoff) THEN best.at ELSE 0

NoStudent == [id |-> 0, usn |-> <<>>, name |-> <<>>]

\* the mutant: a key two students share stays with the first of them
FindFirstOwner(rows, identifier) ==
    LET keys == AssignedKeys(rows)
        at == extractOne(lower(identifier), keys, score_cutoff)
    IN IF rows = <<>> THEN NoStudent
       ELSE IF at # 0 THEN rows[(at + 1) \div 2]
       ELSE NoStudent

\* the mutant: the cutoff is not applied
FindWithoutCutoff(rows, identifier) ==
    LET keys == AssignedKeys(rows)
        at == extractOne(lower(identifier), keys, 0)
        last == Max({i \in DOMAIN keys : keys[i] = keys[at]})
    IN IF rows = <<>> THEN NoStudent ELSE rows[(last + 1) \div 2]

\* the mutant: an exact roll number is looked up first, then an exact name
FindRollNumberFirst(rows, identifier) ==
    LET keys == AssignedKeys(rows)
        at == extractOne(lower(identifier), keys, score_cutoff)
        last == Max({i \in DOMAIN keys : keys[i] = keys[at]})
        same_usn == {i \in DOMAIN rows : lower(rows[i].usn) = lower(identifier)}
        same_name == {i \in DOMAIN rows : lower(rows[i].name) = lower(identifier)}
    IN IF rows = <<>> THEN NoStudent
       ELSE IF same_usn # {} THEN rows[Max(same_usn)]
       ELSE IF same_name # {} THEN rows[Max(same_name)]
       ELSE IF at # 0 THEN rows[(last + 1) \div 2]
       ELSE NoStudent

\* the row found, or NoStudent for Python's None
fuzzy_find_student(rows, identifier) ==
    LET keys == AssignedKeys(rows)
        at == extractOne(lower(identifier), keys, score_cutoff)
        \* choices[key] is the row that assigned the key last
        last == Max({i \in DOMAIN keys : keys[i] = keys[at]})
    IN IF rows = <<>> THEN NoStudent
       ELSE IF at # 0 THEN rows[(last + 1) \div 2]
       ELSE NoStudent

-----------------------------------------------------------------------------
(* database.py: the writes.  Python's None for a date or an IA type is the   *)
(* string "None"; a write returns [success, message, table].                *)

IaTypes == {"IA1", "IA2"}

\* the mutant: four questions are enough, whatever their pairs
ValidateCountOnly(marks_dict) == Cardinality(DOMAIN marks_dict) = 4

validate_question_combination(marks_dict) ==
    LET has(q) == q \in DOMAIN marks_dict
    IN /\ Cardinality(DOMAIN marks_dict) = 4
       /\ (has(1) \/ has(2)) /\ (has(3) \/ has(4))
       /\ (has(5) \/ has(6)) /\ (has(7) \/ has(8))
       /\ ~(has(1) /\ has(2)) /\ ~(has(3) /\ has(4))
       /\ ~(has(5) /\ has(6)) /\ ~(has(7) /\ has(8))

\* the mutant: a plain INSERT into a table without the UNIQUE constraint
RecordAttendanceInsertOnly(table, student_id, date, status) ==
    IF date = "None"
    THEN [success |-> FALSE, message |-> "Error recording attendance: {e}",
          table |-> table]
    ELSE [success |-> TRUE, message |-> "Attendance recorded successfully",
          table |-> table \cup {[student_id |-> student_id, date |-> date,
                                 status |-> status]}]

\* INSERT OR REPLACE INTO attendance: UNIQUE(student_id, date), date NOT NULL
record_attendance(table, student_id, date, status) ==
    IF date = "None"
    THEN [success |-> FALSE, message |-> "Error recording attendance: {e}",
          table |-> table]
    ELSE [success |-> TRUE, message |-> "Attendance recorded successfully",
          table |-> {r \in table : ~(r.student_id = student_id /\ r.date = date)}
                        \cup {[student_id |-> student_id, date |-> date,
                               status |-> status]}]

\* the mutant: the write skips the validation
RecordWithoutValidation(table, student_id, ia_type, marks_dict, total) ==
    IF ia_type \notin IaTypes
    THEN [success |-> FALSE, message |-> "Error recording marks: {e}", table |-> table]
    ELSE [success |-> TRUE, message |-> "{ia_type} marks recorded successfully",
          table |-> {r \in table : ~(r.student_id = student_id /\ r.ia_type = ia_type)}
                        \cup {[student_id |-> student_id, ia_type |-> ia_type,
                               q |-> marks_dict, total |-> total]}]

\* the mutant: the row is written before the combination is looked at
RecordBeforeValidation(table, student_id, ia_type, marks_dict, total) ==
    [success |-> validate_question_combination(marks_dict) /\ ia_type \in IaTypes,
     message |-> IF ~validate_question_combination(marks_dict)
                 THEN "Invalid question combination. Must select one from each pair: (Q1/Q2), (Q3/Q4), (Q5/Q6), (Q7/Q8)"
                 ELSE IF ia_type \notin IaTypes THEN "Error recording marks: {e}"
                 ELSE "{ia_type} marks recorded successfully",
     table |-> IF ia_type \notin IaTypes THEN table
               ELSE {r \in table : ~(r.student_id = student_id /\ r.ia_type = ia_type)}
                        \cup {[student_id |-> student_id, ia_type |-> ia_type,
                               q |-> [k \in DOMAIN marks_dict \cap 1..8 |-> marks_dict[k]],
                               total |-> total]}]

\* INSERT OR REPLACE INTO ia_marks: UNIQUE(student_id, ia_type), ia_type NOT
\* NULL and IN ('IA1', 'IA2'), each q<k>_marks NULL or in 0..10; column q<k>_marks is marks_dict.get(k), NULL for
\* a k that is not a key: the row's q holds the columns that are not NULL
record_ia_marks(table, student_id, ia_type, marks_dict, total) ==
    IF ~validate_question_combination(marks_dict)
    THEN [success |-> FALSE,
          message |-> "Invalid question combination. Must select one from each pair: (Q1/Q2), (Q3/Q4), (Q5/Q6), (Q7/Q8)",
          table |-> table]
    ELSE IF ia_type \notin IaTypes
            \/ \E k \in DOMAIN marks_dict \cap 1..8 : marks_dict[k] \notin 0..10
    THEN [success |-> FALSE, message |-> "Error recording marks: {e}", table |-> table]
    ELSE [success |-> TRUE, message |-> "{ia_type} marks recorded successfully",
          table |-> {r \in table : ~(r.student_id = student_id /\ r.ia_type = ia_type)}
                        \cup {[student_id |-> student_id, ia_type |-> ia_type,
                               q |-> [k \in DOMAIN marks_dict \cap 1..8 |-> marks_dict[k]],
                               total |-> total]}]

-----------------------------------------------------------------------------
(* voice_processor.py: the command pipeline.  A command returns              *)
(* [success, message, fields]: the message is the source's template and      *)
(* fields holds the values its f-string interpolates.  `calls` lists the     *)
(* stages the command ran, in order: the methods it called and, as          *)
(* "cap_check", the comparison total > 40 of line 172.                       *)

NoFields == [none |-> TRUE]

Fail(message, fields) == [success |-> FALSE, message |-> message, fields |-> fields]

\* the mutant: a failed write is tried again
AttendanceWrittenTwice(written, student, status, date) ==
    [ret |-> IF written.success
             THEN [success |-> TRUE,
                   message |-> "{name} ({usn}) marked {status} for {date}",
                   fields |-> [name |-> student.name, usn |-> student.usn,
                               status |-> status, date |-> date]]
             ELSE Fail(written.message, NoFields),
     calls |-> <<"extract_identifier", "extract_attendance_status",
                 "fuzzy_find_student", "record_attendance">>
                 \o (IF written.success THEN <<>> ELSE <<"record_attendance">>),
     table |-> written.table]

\* the mutant: a refused write is reported in the command's own words
AttendanceWrittenOwnMessage(written, student, status, date) ==
    [ret |-> IF written.success
             THEN [success |-> TRUE,
                   message |-> "{name} ({usn}) marked {status} for {date}",
                   fields |-> [name |-> student.name, usn |-> student.usn,
                               status |-> status, date |-> date]]
             ELSE Fail("Could not record attendance", NoFields),
     calls |-> <<"extract_identifier", "extract_attendance_status",
                 "fuzzy_find_student", "record_attendance">>,
     table |-> written.table]

\* lines 134-142: the result of the write
AttendanceWritten(written, student, status, date) ==
    [ret |-> IF written.success
             THEN [success |-> TRUE,
                   message |-> "{name} ({usn}) marked {status} for {date}",
                   fields |-> [name |-> student.name, usn |-> student.usn,
                               status |-> status, date |-> date]]
             ELSE Fail(written.message, NoFields),
     calls |-> <<"extract_identifier", "extract_attendance_status",
                 "fuzzy_find_student", "record_attendance">>,
     table |-> written.table]

\* lines 128-134: the roster's answer
AttendanceMatched(student, identifier, status, date, table) ==
    IF student = NoStudent
    THEN [ret |-> Fail("Student \"{identifier}\" not found in database",
                       [identifier |-> identifier.val]),
          calls |-> <<"extract_identifier", "extract_attendance_status",
                      "fuzzy_find_student">>,
          table |-> table]
    ELSE AttendanceWritten(record_attendance(table, student.id, date, status),
                           student, status, date)

\* the mutant: the roster is searched before the status is looked at, as in
\* the marks pipeline
AttendanceStatusAfterMatch(status, identifier, date, rows, table) ==
    IF fuzzy_find_student(rows, identifier.val) = NoStudent
    THEN [ret |-> Fail("Student \"{identifier}\" not found in database",
                       [identifier |-> identifier.val]),
          calls |-> <<"extract_identifier", "fuzzy_find_student">>,
          table |-> table]
    ELSE IF status = "None"
    THEN [ret |-> Fail("Could not determine attendance status (Present/Absent)",
                       NoFields),
          calls |-> <<"extract_identifier", "fuzzy_find_student",
                      "extract_attendance_status">>,
          table |-> table]
    ELSE AttendanceMatched(fuzzy_find_student(rows, identifier.val),
                           identifier, status, date, table)

\* lines 122-126: the status read
AttendanceStatus(status, identifier, date, rows, table) ==
    IF status = "None"
    THEN [ret |-> Fail("Could not determine attendance status (Present/Absent)",
                       NoFields),
          calls |-> <<"extract_identifier", "extract_attendance_status">>,
          table |-> table]
    ELSE AttendanceMatched(fuzzy_find_student(rows, identifier.val),
                           identifier, status, date, table)

\* lines 116-120: the identifier read
AttendanceIdentified(identifier, text, date, rows, table) ==
    IF ~Truthy(identifier)
    THEN [ret |-> Fail("Could not identify student from command", NoFields),
          calls |-> <<"extract_identifier">>, table |-> table]
    ELSE AttendanceStatus(extract_attendance_status(text), identifier, date,
                          rows, table)

\* lines 110-114: the text lowered and stripped
AttendanceText(text, date, prefix, rows, table) ==
    AttendanceIdentified(extract_identifier(text, prefix), text, date, rows, table)

process_attendance_command(raw, date, prefix, rows, table) ==
    AttendanceText(strip(lower(raw)), date, prefix, rows, table)

\* the mutant: a refused combination is reported with the pairs it violates
MarksWrittenNamingPairs(written, student, ia_type, marks_dict, total) ==
    [ret |-> IF written.success
             THEN [success |-> TRUE,
                   message |-> "{name} ({usn}) - {ia_type}: {questions_str}, Total: {total}/40",
                   fields |-> [name |-> student.name, usn |-> student.usn,
                               ia_type |-> ia_type, questions |-> marks_dict,
                               total |-> total]]
             ELSE IF ~validate_question_combination(marks_dict)
             THEN Fail("Invalid question combination: {pairs}",
                       [pairs |-> {pair \in {{1, 2}, {3, 4}, {5, 6}, {7, 8}} :
                                     Cardinality(DOMAIN marks_dict \cap pair) # 1}])
             ELSE Fail(written.message, NoFields),
     calls |-> <<"extract_identifier", "fuzzy_find_student", "extract_marks",
                 "cap_check", "record_ia_marks">>,
     table |-> written.table]

\* lines 176-187: the result of the write
MarksWritten(written, student, ia_type, marks_dict, total) ==
    [ret |-> IF written.success
             THEN [success |-> TRUE,
                   message |-> "{name} ({usn}) - {ia_type}: {questions_str}, Total: {total}/40",
                   fields |-> [name |-> student.name, usn |-> student.usn,
                               ia_type |-> ia_type, questions |-> marks_dict,
                               total |-> total]]
             ELSE Fail(written.message, NoFields),
     calls |-> <<"extract_identifier", "fuzzy_find_student", "extract_marks",
                 "cap_check", "record_ia_marks">>,
     table |-> written.table]

\* the mutant: no cap, the total goes to the store as it is
MarksTotalledUncapped(total, marks_dict, student, ia_type, table) ==
    MarksWritten(record_ia_marks(table, student.id, ia_type, marks_dict, total),
                 student, ia_type, marks_dict, total)

\* lines 172-176: the total against the cap
MarksTotalled(total, marks_dict, student, ia_type, table) ==
    IF total > 40
    THEN [ret |-> Fail("Total marks ({total}) exceeds maximum (40)",
                       [total |-> total]),
          calls |-> <<"extract_identifier", "fuzzy_find_student", "extract_marks",
                      "cap_check">>,
          table |-> table]
    ELSE MarksWritten(record_ia_marks(table, student.id, ia_type, marks_dict, total),
                      student, ia_type, marks_dict, total)

\* lines 166-170: the marks read
MarksExtracted(marks_dict, student, ia_type, table) ==
    IF DOMAIN marks_dict = {}
    THEN [ret |-> Fail("Could not extract marks from command", NoFields),
          calls |-> <<"extract_identifier", "fuzzy_find_student", "extract_marks">>,
          table |-> table]
    ELSE MarksTotalled(sum_values(marks_dict), marks_dict, student, ia_type, table)

\* the mutant: the marks are read before the roster's answer is looked at
MarksMatchedAfterExtraction(student, identifier, text, ia_type, table) ==
    IF DOMAIN extract_marks(text) = {}
    THEN [ret |-> Fail("Could not extract marks from command", NoFields),
          calls |-> <<"extract_identifier", "fuzzy_find_student", "extract_marks">>,
          table |-> table]
    ELSE IF student = NoStudent
    THEN [ret |-> Fail("Student \"{identifier}\" not found in database",
                       [identifier |-> identifier.val]),
          calls |-> <<"extract_identifier", "fuzzy_find_student", "extract_marks">>,
          table |-> table]
    ELSE MarksExtracted(extract_marks(text), student, ia_type, table)

\* lines 158-164: the roster's answer
MarksMatched(student, identifier, text, ia_type, table) ==
    IF student = NoStudent
    THEN [ret |-> Fail("Student \"{identifier}\" not found in database",
                       [identifier |-> identifier.val]),
          calls |-> <<"extract_identifier", "fuzzy_find_student">>,
          table |-> table]
    ELSE MarksExtracted(extract_marks(text), student, ia_type, table)

\* lines 152-156: the identifier read
MarksIdentified(identifier, text, ia_type, rows, table) ==
    IF ~Truthy(identifier)
    THEN [ret |-> Fail("Could not identify student from command", NoFields),
          calls |-> <<"extract_identifier">>, table |-> table]
    ELSE MarksMatched(fuzzy_find_student(rows, identifier.val), identifier, text,
                      ia_type, table)

\* lines 146-150: the text lowered and stripped
MarksText(text, ia_type, prefix, rows, table) ==
    MarksIdentified(extract_identifier(text, prefix), text, ia_type, rows, table)

process_marks_command(raw, ia_type, prefix, rows, table) ==
    MarksText(strip(lower(raw)), ia_type, prefix, rows, table)

\* lines 99-106: the dispatch on the command type; the result carries both
\* tables
TextResult(r, attendance_table, marks_table, is_attendance) ==
    [ret |-> r.ret, calls |-> r.calls,
     attendance |-> IF is_attendance THEN r.table ELSE attendance_table,
     ia_marks |-> IF is_attendance THEN marks_table ELSE r.table]

process_text_command(c, prefix, rows, attendance_table, marks_table) ==
    IF c.command_type = "attendance"
    THEN TextResult(process_attendance_command(c.text, c.date, prefix, rows,
                                               attendance_table),
                    attendance_table, marks_table, TRUE)
    ELSE IF c.command_type = "marks"
    THEN TextResult(process_marks_command(c.text, c.ia_type, prefix, rows,
                                          marks_table),
                    attendance_table, marks_table, FALSE)
    ELSE [ret |-> Fail("Invalid command type", NoFields), calls |-> <<>>,
          attendance |-> attendance_table, ia_marks |-> marks_table]

-----------------------------------------------------------------------------
(* The inputs: utterances, rosters, prefixes                                 *)

MaxQuestions == 5
MaxStudentId == 2

d24  == <<"2","4">>
d106 == <<"1","0","6">>
n_asha == <<"A","s","h","a">>
n_asho == <<"a","s","h","o">>
n_zed  == <<"z","e","d">>
w_here == <<"h","e","r","e">>

prefix_0  == <<"1","G","A","2","3","C","I","0">>
prefix_no == <<"1","G","A","2","3","C","I">>

Prefixes == {<<>>, prefix_0}

\* the uploaded CSV files: rows of (USN, Name), as typed
Csvs == {
    << [usn |-> prefix_0 \o d24, name |-> n_asha \o <<" ">>],
       [usn |-> prefix_no \o d106, name |-> <<"B","o","b"," ","R","a","o">>] >> }

\* how an utterance names the student
Subjects == {<<w_usn, d24>>, <<w_usn, d106>>, <<n_asha>>, <<n_asho>>, <<n_zed>>, <<>>}

AttendanceUtterances ==
    {join(subject \o payload) :
        subject \in Subjects,
        payload \in {<<w_is, w_present>>, <<w_is, w_absent>>, <<w_is, w_here>>}}

\* "Q<n>-<m>"
QItem(n, m) ==
    <<"Q", DigitChars[n + 1], "-">>
        \o (IF m >= 10 THEN <<DigitChars[(m \div 10) + 1]>> ELSE <<>>)
        \o <<DigitChars[(m % 10) + 1]>>

\* the items of the questions of S, in ascending order
RECURSIVE QItems(_, _)
QItems(S, m) ==
    IF S = {} THEN <<>>
    ELSE <<QItem(Min(S), m)>> \o QItems(S \ {Min(S)}, m)

\* the questions an utterance may name: the first MaxQuestions of this order;
\* every utterance names questions 3 and 5
PoolOrder == <<3, 5, 1, 7, 2, 4, 6, 8>>
QuestionPool == {PoolOrder[i] : i \in 1..MaxQuestions}
ScorePool == {8, 10}

MarksUtterances ==
    {join(<<w_usn, d24, w_scored>> \o QItems({3, 5} \cup S, m)) :
        S \in SUBSET QuestionPool, m \in ScorePool}
    \cup {join(subject \o <<w_scored>> \o items) :
            subject \in {<<w_usn, d24>>, <<n_zed>>, <<>>},
            items \in {QItems({1, 3, 5, 7}, 8), <<>>}}

\* the calls of process_text_command; a date or an IA type left out is None
Commands ==
    {[text |-> t, command_type |-> "attendance", date |-> "2024-01-01",
      ia_type |-> "None"] : t \in AttendanceUtterances}
    \cup {[text |-> t, command_type |-> "marks", date |-> "None", ia_type |-> "IA1"] :
            t \in MarksUtterances}
    \cup {[text |-> join(<<w_usn, d24, w_is, w_present>>), command_type |-> k,
           date |-> "None", ia_type |-> "None"] : k \in {"attendance", "export"}}
    \cup {[text |-> join(<<w_usn, d24, w_scored>> \o QItems(S, 8)),
           command_type |-> "marks", date |-> "None", ia_type |-> "None"] :
            S \in {{1, 3, 5, 7}, {3, 5}}}

-----------------------------------------------------------------------------
(* The operations                                                            *)

\* DatabaseManager.__init__ on a new file, VoiceProcessor.__init__
Init ==
    /\ usn_prefix = <<>>
    /\ students = <<>>
    /\ student_seq = 0
    /\ attendance = {}
    /\ ia_marks = {}
    /\ arg = None
    /\ ret = None
    /\ calls = <<>>

\* voice_processor.usn_prefix = st.session_state.usn_prefix
SetPrefix ==
    /\ \E p \in Prefixes : usn_prefix' = p
    /\ UNCHANGED <<students, student_seq, attendance, ia_marks, arg, ret, calls>>

\* DatabaseManager.load_students_from_csv: a file with a USN twice fails on
\* UNIQUE and nothing is committed
LoadStudents ==
    /\ \E csv \in Csvs :
        /\ student_seq + Len(csv) <= MaxStudentId
        /\ IF \E i, j \in DOMAIN csv : i # j /\ strip(csv[i].usn) = strip(csv[j].usn)
           THEN UNCHANGED <<students, student_seq>>
           ELSE /\ students' = [i \in DOMAIN csv |->
                                   [id |-> student_seq + i, usn |-> strip(csv[i].usn),
                                    name |-> strip(csv[i].name)]]
                /\ student_seq' = student_seq + Len(csv)
    /\ UNCHANGED <<usn_prefix, attendance, ia_marks, arg, ret, calls>>

Pending == arg # None /\ ret = None

\* the caller has a command to submit, the one before has returned
Submit ==
    /\ ~Pending
    /\ \E c \in Commands : arg' = c
    /\ ret' = None
    /\ calls' = <<>>
    /\ UNCHANGED <<usn_prefix, students, student_seq, attendance, ia_marks>>

\* the command returns: its result and what it wrote
Return(r) ==
    /\ ret' = r.ret
    /\ calls' = r.calls
    /\ attendance' = r.attendance
    /\ ia_marks' = r.ia_marks

\* VoiceProcessor.process_text_command
ProcessTextCommand ==
    /\ Pending
    /\ Return(process_text_command(arg, usn_prefix, students, attendance, ia_marks))
    /\ UNCHANGED <<usn_prefix, students, student_seq, arg>>

Next ==
    \/ SetPrefix
    \/ LoadStudents
    \/ Submit
    \/ ProcessTextCommand

Spec == Init /\ [][Next]_vars

-----------------------------------------------------------------------------
(* Properties of the command pipeline, under Spec                            *)

\* a step in which the pending command returns
Returning == Pending /\ ret' # None

\* what the stages yield for the pending command on the state it runs in
CmdText == strip(lower(arg.text))
CmdIdentifier == extract_identifier(CmdText, usn_prefix)
CmdStudent == fuzzy_find_student(students, CmdIdentifier.val)
CmdStatus == extract_attendance_status(CmdText)
CmdMarks == extract_marks(CmdText)

Count(seq, x) == Cardinality({i \in DOMAIN seq : seq[i] = x})
Before(seq, x, y) == \E i, j \in DOMAIN seq : i < j /\ seq[i] = x /\ seq[j] = y

QuestionPairs == {{1, 2}, {3, 4}, {5, 6}, {7, 8}}

\* C4: every IA marks record the store holds has exactly four question
\* scores that are not NULL, one of each pair {1,2}, {3,4}, {5,6}, {7,8}, and
\* so never both questions of a pair
StoredMarksOnePerPair ==
    \A r \in ia_marks :
        /\ Cardinality(DOMAIN r.q) = 4
        /\ \A pair \in QuestionPairs : Cardinality(DOMAIN r.q \cap pair) = 1

\* a record with question 2 for the pair {1,2} is stored
StoredMarksWitness ==
    \E r \in ia_marks : 2 \in DOMAIN r.q /\ 1 \notin DOMAIN r.q

\* C5: a marks command whose extracted marks sum to more than 40 fails with
\* "Total marks ({total}) exceeds maximum (40)" and writes nothing, whether or
\* not the questions are a valid combination; no stored record has a total
\* above 40
MarksCapBeforeCombination ==
    [][ /\ (/\ Returning
            /\ arg.command_type = "marks"
            /\ Truthy(CmdIdentifier)
            /\ CmdStudent # NoStudent
            /\ sum_values(CmdMarks) > 40)
           => /\ ret'.success = FALSE
              /\ ret'.message = "Total marks ({total}) exceeds maximum (40)"
              /\ ret'.fields = [total |-> sum_values(CmdMarks)]
              /\ ia_marks' = ia_marks
        /\ \A r \in ia_marks' : r.total <= 40 ]_vars

\* five questions of 10 marks each were refused for their total of 50
MarksCapWitness ==
    /\ ret # None
    /\ ret.message = "Total marks ({total}) exceeds maximum (40)"
    /\ ret.fields = [total |-> 50]
    /\ ~validate_question_combination(extract_marks(strip(lower(arg.text))))

\* C8 as stated: an attendance command whose identifier is extracted but
\* matches no student, and whose text has neither "present" nor "absent",
\* fails with the student not found
AttendanceMatchBeforeStatus ==
    [][ (/\ Returning
         /\ arg.command_type = "attendance"
         /\ Truthy(CmdIdentifier)
         /\ CmdStudent = NoStudent
         /\ CmdStatus = "None")
        => ret'.message = "Student \"{identifier}\" not found in database" ]_vars

\* C8, amended: the status is read before the roster is searched.  An
\* attendance command whose identifier is extracted and whose text has neither
\* "present" nor "absent" fails with the status not determined, and without a
\* roster lookup, whether or not the identifier matches a student; the
\* student not found is reported only once a status was read
AttendanceStatusBeforeMatch ==
    [][ (/\ Returning
         /\ arg.command_type = "attendance"
         /\ Truthy(CmdIdentifier))
        => /\ CmdStatus = "None"
              => /\ ret'.message = "Could not determine attendance status (Present/Absent)"
                 /\ Count(calls', "fuzzy_find_student") = 0
           /\ ret'.message = "Student \"{identifier}\" not found in database"
              => /\ CmdStatus # "None"
                 /\ CmdStudent = NoStudent
           /\ (CmdStatus # "None" /\ CmdStudent = NoStudent)
              => ret'.message = "Student \"{identifier}\" not found in database" ]_vars

\* a command naming nobody of the roster, and without a status, has failed
\* on the status
AttendanceStatusWitness ==
    /\ ret # None
    /\ arg.command_type = "attendance"
    /\ ret.message = "Could not determine attendance status (Present/Absent)"
    /\ students # <<>>
    /\ fuzzy_find_student(students,
           extract_identifier(strip(lower(arg.text)), usn_prefix).val) = NoStudent

\* C9: a marks command reports the failure of the first stage that fails, in
\* the order identifier, roster match, marks extraction, validation (cap, then
\* combination), write: no roster lookup after a missing identifier, no marks
\* extraction after a missing student, no cap or combination check after
\* empty marks
MarksFailureOrder ==
    [][ (Returning /\ arg.command_type = "marks")
        => IF ~Truthy(CmdIdentifier)
           THEN /\ ret'.message = "Could not identify student from command"
                /\ calls' = <<"extract_identifier">>
           ELSE IF CmdStudent = NoStudent
           THEN /\ ret'.message = "Student \"{identifier}\" not found in database"
                /\ calls' = <<"extract_identifier", "fuzzy_find_student">>
           ELSE IF DOMAIN CmdMarks = {}
           THEN /\ ret'.message = "Could not extract marks from command"
                /\ calls' = <<"extract_identifier", "fuzzy_find_student",
                              "extract_marks">>
           ELSE IF sum_values(CmdMarks) > 40
           THEN /\ ret'.message = "Total marks ({total}) exceeds maximum (40)"
                /\ Count(calls', "record_ia_marks") = 0
           ELSE IF ~validate_question_combination(CmdMarks)
           THEN /\ ret'.message = "Invalid question combination. Must select one from each pair: (Q1/Q2), (Q3/Q4), (Q5/Q6), (Q7/Q8)"
                /\ ia_marks' = ia_marks
           ELSE IF arg.ia_type \notin IaTypes
           THEN /\ ret'.message = "Error recording marks: {e}"
                /\ ia_marks' = ia_marks
           ELSE ret'.success ]_vars

\* a marks command naming nobody of the roster, and without marks, has failed
\* on the student
MarksFailureOrderWitness ==
    /\ ret # None
    /\ arg.command_type = "marks"
    /\ ret.message = "Student \"{identifier}\" not found in database"
    /\ students # <<>>
    /\ DOMAIN extract_marks(strip(lower(arg.text))) = {}

\* C10: an attendance or marks command returns once, with success or with
\* failure; it searches the roster at most once and writes at most once, and
\* it writes only after the identifier, the student and the status or marks
\* were all found
OneOutcomeNoRetry ==
    [][ (Returning /\ arg.command_type \in {"attendance", "marks"})
        => LET is_attendance == arg.command_type = "attendance"
               write == IF is_attendance THEN "record_attendance"
                        ELSE "record_ia_marks"
               payload == IF is_attendance THEN "extract_attendance_status"
                          ELSE "extract_marks"
               payload_found == IF is_attendance THEN CmdStatus # "None"
                                ELSE DOMAIN CmdMarks # {}
               wrote == Count(calls', write) > 0
           IN /\ ret'.success \in BOOLEAN
              /\ ~Pending'
              /\ Count(calls', "fuzzy_find_student") <= 1
              /\ Count(calls', write) <= 1
              /\ wrote => /\ Truthy(CmdIdentifier)
                          /\ CmdStudent # NoStudent
                          /\ payload_found
                          /\ Before(calls', "extract_identifier", write)
                          /\ Before(calls', "fuzzy_find_student", write)
                          /\ Before(calls', payload, write)
              /\ ~wrote => attendance' = attendance /\ ia_marks' = ia_marks
              /\ ret'.success => wrote ]_vars

\* a write that failed was not tried again
OneOutcomeWitness ==
    /\ ret # None
    /\ ~ret.success
    /\ Count(calls, "record_attendance") = 1

\* the record a successful command writes
AttendancePayload ==
    [student_id |-> CmdStudent.id, date |-> arg.date, status |-> CmdStatus]
MarksPayload ==
    [student_id |-> CmdStudent.id, ia_type |-> arg.ia_type,
     q |-> [k \in DOMAIN CmdMarks \cap 1..8 |-> CmdMarks[k]],
     total |-> sum_values(CmdMarks)]

SameAttendanceKey(r1, r2) == r1.student_id = r2.student_id /\ r1.date = r2.date
SameMarksKey(r1, r2) == r1.student_id = r2.student_id /\ r1.ia_type = r2.ia_type

\* C11: the store's writes are insert-or-replace.  The store never holds two
\* attendance records of one (student, date) nor two marks records of one
\* (student, IA type); a successful command leaves under its key exactly its
\* own payload and leaves the records of every other key as they were, so
\* each record is the payload of the last successful command for its key; a
\* successful command whose payload is already stored changes no record, and
\* no other step changes a record
StoreInsertOrReplace ==
    [][ /\ \A r1, r2 \in attendance' : SameAttendanceKey(r1, r2) => r1 = r2
        /\ \A r1, r2 \in ia_marks' : SameMarksKey(r1, r2) => r1 = r2
        /\ (Returning /\ ret'.success /\ arg.command_type = "attendance")
           => /\ AttendancePayload \in attendance'
              /\ \A r \in attendance \cup attendance' :
                    ~SameAttendanceKey(r, AttendancePayload)
                        => (r \in attendance <=> r \in attendance')
              /\ AttendancePayload \in attendance => attendance' = attendance
              /\ ia_marks' = ia_marks
        /\ (Returning /\ ret'.success /\ arg.command_type = "marks")
           => /\ MarksPayload \in ia_marks'
              /\ \A r \in ia_marks \cup ia_marks' :
                    ~SameMarksKey(r, MarksPayload)
                        => (r \in ia_marks <=> r \in ia_marks')
              /\ MarksPayload \in ia_marks => ia_marks' = ia_marks
              /\ attendance' = attendance
        /\ ~(Returning /\ ret'.success)
           => attendance' = attendance /\ ia_marks' = ia_marks ]_vars

\* an attendance command is about to succeed for a (student, date) that the
\* store holds with the other status, and its write replaces that record
StoreReplaceWitness ==
    /\ Pending
    /\ arg.command_type = "attendance"
    /\ Truthy(CmdIdentifier)
    /\ CmdStudent # NoStudent
    /\ \E r \in attendance :
          /\ SameAttendanceKey(r, AttendancePayload)
          /\ r.status # CmdStatus
          /\ process_text_command(arg, usn_prefix, students, attendance,
                                  ia_marks).attendance
                = (attendance \ {r}) \cup {AttendancePayload}

\* the roster's student with this roll-number, None without one
StudentWithUsn(usn) ==
    IF \E i \in DOMAIN students : students[i].usn = usn
    THEN students[CHOOSE i \in DOMAIN students : students[i].usn = usn]
    ELSE NoStudent

\* C12: with a prefix p configured and a roster holding the roll-number
\* expand(p, d), the attendance command "usn d is present" ("usn d is
\* absent"), d of 2 or 3 digits and with a date, resolves the identifier to
\* expand(p, d), succeeds, and records Present (Absent) for that student on
\* that date; with p = "1GA23CI0", "24" gives "1GA23CI024" and "106" gives
\* "1GA23CI106"
UsnAttendanceRecorded ==
    [][ \A d \in {d24, d106}, word \in {w_present, w_absent} :
          LET usn == _expand_usn(usn_prefix, d)
              student == StudentWithUsn(usn)
              status == IF word = w_present THEN "Present" ELSE "Absent"
          IN (/\ Returning
              /\ arg.command_type = "attendance"
              /\ arg.date # "None"
              /\ arg.text = join(<<w_usn, d, w_is, word>>)
              /\ usn_prefix # <<>>
              /\ student # NoStudent)
             => /\ CmdIdentifier = Some(usn)
                /\ usn_prefix = prefix_0
                     => usn = (IF d = d24
                               THEN <<"1","G","A","2","3","C","I","0","2","4">>
                               ELSE <<"1","G","A","2","3","C","I","1","0","6">>)
                /\ ret'.success
                /\ ret'.fields.usn = usn
                /\ ret'.fields.status = status
                /\ [student_id |-> student.id, date |-> arg.date,
                    status |-> status] \in attendance' ]_vars

\* "usn 106 is absent" has succeeded under the prefix "1GA23CI0" and the
\* student 1GA23CI106 is recorded Absent
UsnAttendanceWitness ==
    /\ ret # None
    /\ ret.success
    /\ arg.command_type = "attendance"
    /\ arg.text = join(<<w_usn, d106, w_is, w_absent>>)
    /\ usn_prefix = prefix_0
    /\ \E r \in attendance :
          /\ r.status = "Absent"
          /\ StudentWithUsn(prefix_no \o d106) # NoStudent
          /\ r.student_id = StudentWithUsn(prefix_no \o d106).id

\* the marks command that returns has come to the combination check: its
\* identifier, its student and its marks were found and the total is at most 40
ComesToCombinationCheck ==
    /\ Returning
    /\ arg.command_type = "marks"
    /\ Truthy(CmdIdentifier)
    /\ CmdStudent # NoStudent
    /\ DOMAIN CmdMarks # {}
    /\ sum_values(CmdMarks) <= 40

\* C15 as stated: a marks command whose marks hold both question 1 and
\* question 2 fails on the combination, and the failure names the pair (1,2)
InvalidCombinationNamesPair ==
    [][ (ComesToCombinationCheck /\ {1, 2} \subseteq DOMAIN CmdMarks)
        => /\ ret'.success = FALSE
           /\ ret'.fields = [pair |-> <<1, 2>>] ]_vars

\* C15, amended: a marks command that comes to the combination check with
\* marks that violate the pairing rule fails with the one message "Invalid
\* question combination. Must select one from each pair: (Q1/Q2), (Q3/Q4),
\* (Q5/Q6), (Q7/Q8)" and writes nothing; the message is a constant that
\* lists all four pairs, the same whichever pair is violated
InvalidCombinationOneMessage ==
    [][ (ComesToCombinationCheck /\ ~validate_question_combination(CmdMarks))
        => /\ ret' = Fail("Invalid question combination. Must select one from each pair: (Q1/Q2), (Q3/Q4), (Q5/Q6), (Q7/Q8)",
                          NoFields)
           /\ ia_marks' = ia_marks ]_vars

\* marks with both question 1 and question 2 were refused
InvalidCombinationWitness ==
    /\ ret # None
    /\ arg.command_type = "marks"
    /\ ret.message = "Invalid question combination. Must select one from each pair: (Q1/Q2), (Q3/Q4), (Q5/Q6), (Q7/Q8)"
    /\ ret.fields = NoFields
    /\ {1, 2} \subseteq DOMAIN extract_marks(strip(lower(arg.text)))

\* the pending command has found its identifier, its student and its status
\* or marks, and the marks total at most 40: it goes to the store
Validated ==
    /\ arg.command_type \in {"attendance", "marks"}
    /\ Truthy(CmdIdentifier)
    /\ CmdStudent # NoStudent
    /\ IF arg.command_type = "attendance" THEN CmdStatus # "None"
       ELSE DOMAIN CmdMarks # {} /\ sum_values(CmdMarks) <= 40

\* what the store answers to the write of the pending command
StoreAnswer ==
    IF arg.command_type = "attendance"
    THEN record_attendance(attendance, CmdStudent.id, arg.date, CmdStatus)
    ELSE record_ia_marks(ia_marks, CmdStudent.id, arg.ia_type, CmdMarks,
                         sum_values(CmdMarks))

\* C28: when the store refuses the write of a validated command, the command
\* fails with the store's message and nothing else, and the write is made
\* once; when the store accepts it, the command succeeds and its message
\* names the roll number and the name of the matched student, not the
\* identifier that was dictated
StoreAnswerSurfaced ==
    [][ (Returning /\ Validated)
        => IF StoreAnswer.success
           THEN /\ ret'.success
                /\ ret'.message = (IF arg.command_type = "attendance"
                                   THEN "{name} ({usn}) marked {status} for {date}"
                                   ELSE "{name} ({usn}) - {ia_type}: {questions_str}, Total: {total}/40")
                /\ ret'.fields.name = CmdStudent.name
                /\ ret'.fields.usn = CmdStudent.usn
                /\ "identifier" \notin DOMAIN ret'.fields
           ELSE /\ ret' = [success |-> FALSE, message |-> StoreAnswer.message,
                           fields |-> NoFields]
                /\ Count(calls', "record_attendance") + Count(calls', "record_ia_marks") = 1
      ]_vars

\* the store refused marks without an IA type, and the command failed with
\* the store's message
StoreAnswerWitness ==
    /\ ret # None
    /\ arg.command_type = "marks"
    /\ arg.ia_type = "None"
    /\ ret = [success |-> FALSE, message |-> "Error recording marks: {e}",
              fields |-> NoFields]

\* C29: a command that fails leaves the attendance records and the marks
\* records as they were, whatever the failure: the command type, the
\* identifier, the student, the status, the marks, the total, the
\* combination, or an error of the store
FailureWritesNothing ==
    [][ (Returning /\ ~ret'.success)
        => attendance' = attendance /\ ia_marks' = ia_marks ]_vars

\* a refused combination, with records of earlier commands in the store
FailureWritesNothingWitness ==
    /\ ret # None
    /\ ~ret.success
    /\ ret.message = "Invalid question combination. Must select one from each pair: (Q1/Q2), (Q3/Q4), (Q5/Q6), (Q7/Q8)"
    /\ attendance # {}
    /\ ia_marks # {}

-----------------------------------------------------------------------------
(* Commands that arrive as audio.  What Whisper makes of an audio file is    *)
(* part of the file drawn: None for a failure (Whisper missing, no model,    *)
(* an exception), else result['text'], which may be empty.                   *)

\* lines 61-86
transcribe_audio(audio_file) == audio_file.transcription

\* lines 31-59
transcribe_audio_bytes(audio_bytes) == audio_bytes.transcription

\* the text command made of a transcript
TextCommand(text, c) ==
    [text |-> text, command_type |-> c.command_type, date |-> c.date,
     ia_type |-> c.ia_type]

\* lines 93-97: the transcript tested against None
AudioTranscribed(transcribed_text, c, prefix, rows, attendance_table, marks_table) ==
    IF ~transcribed_text.some
    THEN [ret |-> Fail("Failed to transcribe audio", NoFields), calls |-> <<>>,
          attendance |-> attendance_table, ia_marks |-> marks_table]
    ELSE process_text_command(TextCommand(transcribed_text.val, c), prefix, rows,
                              attendance_table, marks_table)

process_audio_file(c, prefix, rows, attendance_table, marks_table) ==
    AudioTranscribed(transcribe_audio(c.audio), c, prefix, rows,
                     attendance_table, marks_table)

\* app.py lines 192-208 and 308-324: the transcript tested for truth
RecordingTranscribed(transcribed_text, c, prefix, rows, attendance_table, marks_table) ==
    IF Truthy(transcribed_text)
    THEN process_text_command(TextCommand(transcribed_text.val, c), prefix, rows,
                              attendance_table, marks_table)
    ELSE [ret |-> Fail("Could not understand audio. Please try again.", NoFields),
          calls |-> <<>>,
          attendance |-> attendance_table, ia_marks |-> marks_table]

\* app.py lines 181-208: the button "Process Recording"
process_recording(c, prefix, rows, attendance_table, marks_table) ==
    RecordingTranscribed(transcribe_audio_bytes(c.audio), c, prefix, rows,
                         attendance_table, marks_table)

\* what Whisper may return
Transcriptions ==
    {NoStr, Some(<<>>), Some(<<" ">>)}
    \cup {Some(<<" ">> \o join(<<w_usn, d24, w_is, word>>)) :
            word \in {w_present, w_absent}}
    \cup {Some(<<" ">> \o join(<<w_usn, d24, w_scored>> \o QItems({1, 3, 5, 7}, 8)))}

AudioCommands ==
    {[audio |-> [transcription |-> t], handler |-> h, command_type |-> k.type,
      date |-> k.date, ia_type |-> k.ia_type] :
        t \in Transcriptions,
        h \in {"process_audio_file", "process_recording"},
        k \in {[type |-> "attendance", date |-> "2024-01-01", ia_type |-> "None"],
               [type |-> "marks", date |-> "None", ia_type |-> "IA1"]}}

\* the caller has an audio command to submit
SubmitAudio ==
    /\ ~Pending
    /\ \E c \in AudioCommands : arg' = c
    /\ ret' = None
    /\ calls' = <<>>
    /\ UNCHANGED <<usn_prefix, students, student_seq, attendance, ia_marks>>

\* VoiceProcessor.process_audio_file
ProcessAudioFile ==
    /\ Pending
    /\ arg.handler = "process_audio_file"
    /\ Return(process_audio_file(arg, usn_prefix, students, attendance, ia_marks))
    /\ UNCHANGED <<usn_prefix, students, student_seq, arg>>

\* the page's live recording
ProcessRecording ==
    /\ Pending
    /\ arg.handler = "process_recording"
    /\ Return(process_recording(arg, usn_prefix, students, attendance, ia_marks))
    /\ UNCHANGED <<usn_prefix, students, student_seq, arg>>

NextAudio ==
    \/ SetPrefix
    \/ LoadStudents
    \/ SubmitAudio
    \/ ProcessAudioFile
    \/ ProcessRecording

SpecAudio == Init /\ [][NextAudio]_vars

\* C16 as stated: when the transcription fails or returns an empty result,
\* process_audio_file ends with "Failed to transcribe audio"; nothing is
\* parsed, looked up or written, and an empty transcript never reaches the
\* identifier extraction
EmptyTranscriptIsTranscriptionFailed ==
    [][ (/\ Pending
         /\ ret' # None
         /\ arg.handler = "process_audio_file"
         /\ ~Truthy(arg.audio.transcription))
        => /\ ret' = Fail("Failed to transcribe audio", NoFields)
           /\ calls' = <<>>
           /\ attendance' = attendance
           /\ ia_marks' = ia_marks ]_vars

-----------------------------------------------------------------------------
(* Several browser sessions on one server process.  Streamlit gives each     *)
(* session its own st.session_state and runs one script at a time per        *)
(* session; the scripts of different sessions interleave.  Here each         *)
(* variable of a session is a function of the session: usn_prefix holds      *)
(* the session_state.usn_prefix of every session and the usn_prefix of       *)
(* every VoiceProcessor, and calls[s] begins with "usn_prefix" once the      *)
(* handler of s has run its assignment of line 226.  The database file is    *)
(* shared; no roster is loaded.                                              *)

MaxSessions == 2

Sessions == 1..MaxSessions

\* the mutant: one VoiceProcessor for the whole process
SharedVoiceProcessor(s) == 1

\* app.py lines 35-36: the VoiceProcessor of a session is made for that
\* session and kept in its session_state
VoiceProcessorOf(s) == s

SessionPrefixes == {prefix_0, prefix_no}

SessionCommands ==
    {[text |-> join(<<w_usn, d, w_is, w_present>>), command_type |-> "attendance",
      date |-> "2024-01-01", ia_type |-> "None"] : d \in {d24, d106}}

\* app.py lines 33-40 in every session
InitSessions ==
    /\ usn_prefix = [session_state |-> [s \in Sessions |-> prefix_0],
                     voice_processor |-> [v \in Sessions |-> <<>>]]
    /\ students = <<>>
    /\ student_seq = 0
    /\ attendance = {}
    /\ ia_marks = {}
    /\ arg = [s \in Sessions |-> None]
    /\ ret = [s \in Sessions |-> None]
    /\ calls = [s \in Sessions |-> <<>>]

SessionPending(s) == arg[s] # None /\ ret[s] = None

\* app.py lines 91-92: the button "Save Prefix"
SavePrefix(s) ==
    /\ ~SessionPending(s)
    /\ \E p \in SessionPrefixes :
          usn_prefix' = [usn_prefix EXCEPT !.session_state[s] = p]
    /\ UNCHANGED <<students, student_seq, attendance, ia_marks, arg, ret, calls>>

\* app.py lines 223-224: the button "Process Text" with a command typed
PressProcessText(s) ==
    /\ ~SessionPending(s)
    /\ \E c \in SessionCommands : arg' = [arg EXCEPT ![s] = c]
    /\ ret' = [ret EXCEPT ![s] = None]
    /\ calls' = [calls EXCEPT ![s] = <<>>]
    /\ UNCHANGED <<usn_prefix, students, student_seq, attendance, ia_marks>>

\* app.py line 226
AssignPrefix(s) ==
    /\ SessionPending(s)
    /\ calls[s] = <<>>
    /\ usn_prefix' = [usn_prefix EXCEPT !.voice_processor[VoiceProcessorOf(s)] =
                          usn_prefix.session_state[s]]
    /\ calls' = [calls EXCEPT ![s] = <<"usn_prefix">>]
    /\ UNCHANGED <<students, student_seq, attendance, ia_marks, arg, ret>>

\* the command of a session returns
SessionReturn(s, r) ==
    /\ ret' = [ret EXCEPT ![s] = r.ret]
    /\ calls' = [calls EXCEPT ![s] = <<"usn_prefix">> \o r.calls]
    /\ attendance' = r.attendance
    /\ ia_marks' = r.ia_marks

\* app.py lines 228-232
CallProcessText(s) ==
    /\ SessionPending(s)
    /\ calls[s] = <<"usn_prefix">>
    /\ SessionReturn(s, process_text_command(
                            arg[s], usn_prefix.voice_processor[VoiceProcessorOf(s)],
                            students, attendance, ia_marks))
    /\ UNCHANGED <<usn_prefix, students, student_seq, arg>>

NextSessions ==
    \E s \in Sessions :
        \/ SavePrefix(s)
        \/ PressProcessText(s)
        \/ AssignPrefix(s)
        \/ CallProcessText(s)

SpecSessions == InitSessions /\ [][NextSessions]_vars

\* C17: sessions do not see each other's prefix.  In every interleaving of
\* the sessions' prefix saves and commands, the identifier a command of a
\* session is resolved to is the expansion of its digits with the prefix
\* saved last in that same session (the roster being empty, the command's
\* failure names it)
SessionsKeepTheirPrefix ==
    [][ \A s \in Sessions : \A d \in {d24, d106} :
          (/\ SessionPending(s)
           /\ ret'[s] # None
           /\ arg[s].text = join(<<w_usn, d, w_is, w_present>>))
          => ret'[s] = Fail("Student \"{identifier}\" not found in database",
                            [identifier |->
                                _expand_usn(usn_prefix.session_state[s], d)]) ]_vars

\* a command of session 1 has resolved "usn 24" with the prefix of session 1
\* while session 2, with another prefix saved, had assigned its own in between
SessionsWitness ==
    /\ ret[1] # None
    /\ ret[1].fields = [identifier |-> prefix_no \o d24]
    /\ usn_prefix.session_state[1] = prefix_no
    /\ usn_prefix.session_state[2] = prefix_0
    /\ usn_prefix.voice_processor[2] = prefix_0
    /\ SessionPending(2)

-----------------------------------------------------------------------------
(* test_system.py, test_voice_processor: the roster of one student           *)
(* ("24CS001", "Aloha Smith"), a VoiceProcessor without prefix, and          *)
(* commands that name the student by first name or by full name, spelled     *)
(* right or with one letter wrong                                            *)

n_aloha == <<"A","l","o","h","a">>
n_aloka == <<"A","l","o","k","a">>
n_smith == <<"S","m","i","t","h">>
usn_24cs001 == <<"2","4","C","S","0","0","1">>

\* lines 126-129
TestCsv == << [usn |-> usn_24cs001, name |-> join(<<n_aloha, n_smith>>)] >>

\* lines 136-140 and 160-164, and the same with the full name, absent, or
\* the other date
TestCommands ==
    {[text |-> join(name \o <<w_is, word>>), command_type |-> "attendance",
      date |-> date, ia_type |-> "None"] :
        name \in {<<n_aloha>>, <<n_aloka>>, <<n_aloha, n_smith>>, <<n_aloka, n_smith>>},
        word \in {w_present, w_absent},
        date \in {"2024-01-01", "2024-01-02"}}

\* line 130: db.load_students_from_csv(test_students)
LoadTestStudents ==
    /\ student_seq + Len(TestCsv) <= MaxStudentId
    /\ students' = [i \in DOMAIN TestCsv |->
                        [id |-> student_seq + i, usn |-> strip(TestCsv[i].usn),
                         name |-> strip(TestCsv[i].name)]]
    /\ student_seq' = student_seq + Len(TestCsv)
    /\ UNCHANGED <<usn_prefix, attendance, ia_marks, arg, ret, calls>>

\* the test has a command to submit
SubmitTest ==
    /\ ~Pending
    /\ \E c \in TestCommands : arg' = c
    /\ ret' = None
    /\ calls' = <<>>
    /\ UNCHANGED <<usn_prefix, students, student_seq, attendance, ia_marks>>

NextTest ==
    \/ LoadTestStudents
    \/ SubmitTest
    \/ ProcessTextCommand

SpecTest == Init /\ [][NextTest]_vars

\* C18 as stated: on the roster ("24CS001", "Aloha Smith"), the attendance
\* command "Aloha is present", and "Aloka is present" with one letter wrong,
\* is resolved to that student and succeeds
FirstNameResolves ==
    [][ (/\ Returning
         /\ students # <<>>
         /\ \E name \in {n_aloha, n_aloka} :
               arg.text = join(<<name, w_is, w_present>>))
        => /\ CmdStudent # NoStudent
           /\ CmdStudent.usn = usn_24cs001
           /\ ret'.success ]_vars

-----------------------------------------------------------------------------
(* _expand_usn on drawn prefixes and digit strings                           *)

MaxDigits == 3

\* the strings of length n over the characters of S
StringsOver(S, n) == {<<>> \o f : f \in [1..n -> S]}

ExpandPrefixes ==
    {<<>>, prefix_0, prefix_no, <<"0">>, <<"A">>, <<"0", "0">>, <<"A", "0">>}

ExpandDigits == UNION {StringsOver({"0", "1", "9"}, n) : n \in 1..MaxDigits}

InitExpand ==
    /\ usn_prefix \in ExpandPrefixes
    /\ arg \in {[digits |-> d] : d \in ExpandDigits}
    /\ ret = None
    /\ students = <<>>
    /\ student_seq = 0
    /\ attendance = {}
    /\ ia_marks = {}
    /\ calls = <<>>

\* self._expand_usn(digits)
ExpandUsn ==
    /\ ret = None
    /\ ret' = [value |-> _expand_usn(usn_prefix, arg.digits)]
    /\ UNCHANGED <<usn_prefix, students, student_seq, attendance, ia_marks, arg, calls>>

NextExpand == ExpandUsn

SpecExpand == InitExpand /\ [][NextExpand]_vars

\* C1: for a prefix p that is not empty and a digit string d of 2 or 3
\* digits, the expansion is p without its last character, then d, when p ends
\* in "0" and d has 3 digits, and p, then d, in every other case
ExpansionDropsPlaceholderZero ==
    (ret # None /\ usn_prefix # <<>> /\ Len(arg.digits) \in {2, 3})
    => LET p == usn_prefix
           d == arg.digits
           kept == IF p[Len(p)] = "0" /\ Len(d) = 3 THEN Len(p) - 1 ELSE Len(p)
       IN /\ Len(ret.value) = kept + Len(d)
          /\ \A i \in 1..kept : ret.value[i] = p[i]
          /\ \A j \in 1..Len(d) : ret.value[kept + j] = d[j]

\* the configured default prefix has lost its zero before three digits
ExpansionWitness ==
    /\ ret # None
    /\ usn_prefix = prefix_0
    /\ Len(arg.digits) = 3
    /\ Len(ret.value) = Len(prefix_0) + 2

-----------------------------------------------------------------------------
(* validate_question_combination on drawn dicts                              *)

MaxKey == 9

InitValidate ==
    /\ arg \in {[marks_dict |-> [k \in S |-> 5]] : S \in SUBSET (0..MaxKey)}
    /\ ret = None
    /\ usn_prefix = <<>>
    /\ students = <<>>
    /\ student_seq = 0
    /\ attendance = {}
    /\ ia_marks = {}
    /\ calls = <<>>

\* self.validate_question_combination(marks_dict)
Validate ==
    /\ ret = None
    /\ ret' = [value |-> validate_question_combination(arg.marks_dict)]
    /\ UNCHANGED <<usn_prefix, students, student_seq, attendance, ia_marks, arg, calls>>

NextValidate == Validate

SpecValidate == InitValidate /\ [][NextValidate]_vars

\* C2: a dict is accepted if and only if its keys are exactly one question of
\* each pair {1,2}, {3,4}, {5,6}, {7,8} and nothing else
AcceptsExactlyOnePerPair ==
    ret # None
    => (ret.value
        <=> /\ \A pair \in QuestionPairs :
                  Cardinality(DOMAIN arg.marks_dict \cap pair) = 1
            /\ DOMAIN arg.marks_dict \subseteq UNION QuestionPairs)

\* four questions that hold both questions of a pair were rejected
ValidateWitness ==
    /\ ret # None
    /\ DOMAIN arg.marks_dict = {1, 2, 3, 5}
    /\ ~ret.value

-----------------------------------------------------------------------------
(* extract_identifier on drawn transcripts, lowered and stripped as the      *)
(* commands pass them                                                        *)

MaxTokenLen == 4

\* what may follow "usn": digits of every length up to MaxTokenLen, and
\* tokens with a letter
UsnTokens ==
    {SubSeq(<<"5","2","4","7","3","1">>, 1, n) : n \in 1..MaxTokenLen}
    \cup {d24, d106, <<"2","4","a">>, <<"a","b">>}

\* what may follow the student: a status, marks, neither
IdentifierTails ==
    {<<w_is, w_present>>, <<w_is, w_absent>>, <<w_is, w_here>>,
     <<w_has, w_scored>>, <<w_scored>>, <<w_ia1>>, <<>>}

\* the calls: `said` is what the text was built from.  "usn": a token after
\* the word usn, with or without a name before it; "bare": digits at the
\* start; "name": texts on which two of the name rules differ, with what
\* the earlier rule yields
MaxSpanWords == 2

\* the words of a span before the status or the marks: stop-words and names
SpanWords == {w_a, w_the, w_i, w_as, n_zed}

SpanTails ==
    {<<w_is, w_present>>, <<w_is, w_absent>>, <<w_scored>>, <<w_has, w_scored>>,
     <<w_has, w_here>>, <<w_ia1>>}

\* the words before a keyword: names, a stop-word, one letter, a number
FallbackWords == {n_zed, n_asho, w_the, <<"x">>, <<"1","2","3","4">>}

\* a keyword no name rule reads, with a word after it; any keyword at the
\* start
FallbackTails(lead) ==
    {<<k, w>> : k \in {w_question, w_marks, w_mark, w_have, w_i, w_is},
                w \in {w_here}}
    \cup {<<>>}
    \cup (IF lead = <<>> THEN {<<k, n_zed>> : k \in keywords} ELSE {})

IdentifierTexts ==
    {[text |-> join(lead \o tail), form |-> "span",
      said |-> [lead |-> lead, token |-> <<>>, tail |-> tail]] :
        lead \in UNION {[1..n -> SpanWords] : n \in 1..MaxSpanWords},
        tail \in SpanTails}
    \cup UNION {{[text |-> join(lead \o tail), form |-> "fallback",
                  said |-> [lead |-> lead, token |-> <<>>, tail |-> tail]] :
                    tail \in FallbackTails(lead)} :
                 lead \in UNION {[1..n -> FallbackWords] : n \in 0..MaxSpanWords}}
    \cup
    {[text |-> join(lead \o <<w_usn, token>> \o tail), form |-> "usn",
      said |-> [lead |-> lead, token |-> token, tail |-> tail]] :
        lead \in {<<>>, <<n_asho>>}, token \in UsnTokens, tail \in IdentifierTails}
    \cup {[text |-> join(<<token>> \o tail), form |-> "bare",
           said |-> [lead |-> <<>>, token |-> token, tail |-> tail]] :
            token \in {t \in UsnTokens : isdigit(t)}, tail \in IdentifierTails}
    \cup {[text |-> join(x.words), form |-> "name",
           said |-> [lead |-> <<>>, token |-> x.first, tail |-> <<>>]] :
            x \in {[words |-> <<w_a, w_scored, n_zed, w_is, w_present>>,
                    first |-> n_zed],
                   [words |-> <<n_zed, d24, w_scored>>,
                    first |-> join(<<n_zed, d24>>)],
                   [words |-> <<n_zed, w_has, n_asho, w_ia1>>, first |-> n_zed],
                   [words |-> <<n_zed, d24, w_question>>, first |-> n_zed]}}

InitIdentify ==
    /\ arg \in IdentifierTexts
    /\ usn_prefix \in {<<>>, prefix_0, prefix_no}
    /\ ret = None
    /\ students = <<>>
    /\ student_seq = 0
    /\ attendance = {}
    /\ ia_marks = {}
    /\ calls = <<>>

\* self.extract_identifier(text)
ExtractIdentifier ==
    /\ ret = None
    /\ ret' = [value |-> extract_identifier(arg.text, usn_prefix)]
    /\ UNCHANGED <<usn_prefix, students, student_seq, attendance, ia_marks, arg, calls>>

NextIdentify == ExtractIdentifier

SpecIdentify == InitIdentify /\ [][NextIdentify]_vars

\* C19 as stated: the token after "usn" is expanded with the prefix only if
\* it is all digits, 2 or 3 of them, and a prefix is configured; a token of
\* 1 digit, of 4 or more digits or with a letter, and any token without a
\* prefix, is returned as it is
UsnTokenExpandedOnlyIfTwoOrThreeDigits ==
    (ret # None /\ arg.form = "usn")
    => ret.value =
         (IF isdigit(arg.said.token) /\ Len(arg.said.token) \in {2, 3}
             /\ usn_prefix # <<>>
          THEN Some(_expand_usn(usn_prefix, arg.said.token))
          ELSE Some(arg.said.token))

\* C20: the identifier rules are tried in the order 1..5 and the first that
\* matches decides.  A text with "usn <token>" is resolved by rule 1, to the
\* token or to its expansion, also when a name stands before it and a name
\* rule would match; digits at the very start, 2 or 3 of them and followed
\* by is/has/scored, are expanded by rule 2 when a prefix is configured, and
\* without a prefix the text goes on to rules 3-5, which do not expand (the
\* digits themselves before a status or before marks, nothing otherwise);
\* other digits at the start are never expanded; where two name rules give
\* different names, the earlier rule's name is returned
IdentifierRulesInOrder ==
    ret # None
    => LET token == arg.said.token
           tail == arg.said.tail
       IN /\ arg.form = "usn"
               => ret.value \in {Some(token), Some(_expand_usn(usn_prefix, token))}
          /\ arg.form = "bare"
               => IF /\ Len(token) \in {2, 3}
                     /\ tail # <<>>
                     /\ tail[1] \in {w_is, w_has, w_scored}
                  THEN IF usn_prefix # <<>>
                       THEN ret.value = Some(_expand_usn(usn_prefix, token))
                       ELSE ret.value = (IF tail = <<w_is, w_here>> THEN NoStr
                                         ELSE Some(token))
                  ELSE ret.value \in {NoStr, Some(token)}
          /\ arg.form = "name" => ret.value = Some(token)

\* "asho usn 24 is present" was resolved by rule 1 to the expanded roll-number
IdentifierRulesWitness ==
    /\ ret # None
    /\ arg.form = "usn"
    /\ arg.text = join(<<n_asho, w_usn, d24, w_is, w_present>>)
    /\ usn_prefix = prefix_0
    /\ ret.value = Some(prefix_0 \o d24)

\* the tokens of an identifier
TokensOf(o) == split(o.val)

\* C21 as stated: the identifier that rules 3 and 4 make of a span before
\* "is present|absent", "scored", "has scored", "has" or "ia1" holds no
\* stop-word token, also when the span holds stop-words only
NameHasNoStopWord ==
    (ret # None /\ arg.form = "span")
    => /\ ret.value.some
       /\ \A i \in DOMAIN TokensOf(ret.value) :
             TokensOf(ret.value)[i] \notin noise_words

\* C21, amended: the identifier is the span's words that are not stop-words,
\* in their order, and so holds no stop-word token, when the span has such
\* a word; a span of stop-words only is returned as it is
NameStrippedUnlessOnlyStopWords ==
    (ret # None /\ arg.form = "span")
    => LET rest == SelectSeq(arg.said.lead, LAMBDA w : w \notin noise_words)
       IN IF rest # <<>>
          THEN /\ ret.value = Some(join(rest))
               /\ \A i \in DOMAIN TokensOf(ret.value) :
                     TokensOf(ret.value)[i] \notin noise_words
          ELSE ret.value = Some(join(arg.said.lead))

\* "a the is present" was read as the student "a the"
NameOnlyStopWordsWitness ==
    /\ ret # None
    /\ arg.form = "span"
    /\ arg.text = join(<<w_a, w_the, w_is, w_present>>)
    /\ ret.value = Some(join(<<w_a, w_the>>))

\* C22: rule 5 returns the words before the first keyword that are no
\* stop-word, longer than one character and not a number, in their order;
\* without such a word extract_identifier returns None and the command fails
\* with "Could not identify student from command"; no rule returns an empty
\* identifier
FallbackKeepsNameLikeWords ==
    ret # None
    => /\ ret.value.some => ret.value.val # <<>>
       /\ arg.form = "fallback"
            => LET kept == SelectSeq(arg.said.lead,
                               LAMBDA w : /\ w \notin noise_words
                                          /\ Len(w) > 1
                                          /\ \E i \in DOMAIN w : w[i] \notin ReDigit)
               IN /\ ret.value = (IF kept # <<>> THEN Some(join(kept)) ELSE NoStr)
                  /\ kept = <<>>
                       => AttendanceIdentified(ret.value, arg.text, "2024-01-01",
                                               students, attendance).ret
                            = Fail("Could not identify student from command",
                                   NoFields)

\* "the 1234 question here" has no name-like word before its keyword
FallbackWitness ==
    /\ ret # None
    /\ arg.form = "fallback"
    /\ arg.text = join(<<w_the, <<"1","2","3","4">>, w_question, w_here>>)
    /\ ret.value = NoStr

-----------------------------------------------------------------------------
(* extract_marks on drawn transcripts                                        *)

MaxQuestionNumber == 9

\* str(n) for 0 <= n < 100
str(n) ==
    IF n >= 10 THEN <<DigitChars[(n \div 10) + 1], DigitChars[(n % 10) + 1]>>
    ELSE <<DigitChars[n + 1]>>

w_for == <<"f","o","r">>

\* one question n with m marks, in the ways a teacher may say it
MarksPhrases(n, m) ==
    { join(<<w_question, str(n) \o <<",">>, str(m), w_marks>>),
      join(<<w_question, str(n), str(m), w_mark>>),
      join(<<w_question, str(n) \o <<"-">> \o str(m)>>),
      join(<<w_question, str(n) \o str(m)>>),
      join(<<w_q \o str(n), str(m), w_marks>>),
      w_q \o str(n) \o <<"-">> \o str(m),
      join(<<str(m), w_marks, w_in, w_question, str(n)>>),
      join(<<w_scored, str(m), w_mark, w_in, w_question, str(n)>>),
      join(<<str(m), w_for, w_question, str(n)>>) }

MarksTexts ==
    UNION {MarksPhrases(n, m) : n \in 0..MaxQuestionNumber, m \in {0, 9, 10, 11}}

InitMarks ==
    /\ arg \in {[text |-> t] : t \in MarksTexts}
    /\ ret = None
    /\ usn_prefix = <<>>
    /\ students = <<>>
    /\ student_seq = 0
    /\ attendance = {}
    /\ ia_marks = {}
    /\ calls = <<>>

\* self.extract_marks(text)
ExtractMarks ==
    /\ ret = None
    /\ ret' = [value |-> extract_marks(arg.text)]
    /\ UNCHANGED <<usn_prefix, students, student_seq, attendance, ia_marks, arg, calls>>

NextMarks == ExtractMarks

SpecMarks == InitMarks /\ [][NextMarks]_vars

\* C3: every entry of the dict extract_marks returns has a question number in
\* 1..8 and marks in 0..10, from the patterns as from the fallback pattern
ExtractedMarksInRange ==
    ret # None
    => \A q \in DOMAIN ret.value : q \in 1..8 /\ ret.value[q] \in 0..10

\* the fallback pattern alone has read "10 for question 8"
ExtractedMarksWitness ==
    /\ ret # None
    /\ arg.text = join(<<str(10), w_for, w_question, str(8)>>)
    /\ ret.value = (8 :> 10)

-----------------------------------------------------------------------------
(* extract_marks on utterances that list several questions                   *)

MaxItems == 3

\* glue.join(parts)
RECURSIVE JoinWith(_, _)
JoinWith(parts, glue) ==
    IF parts = <<>> THEN <<>>
    ELSE IF Len(parts) = 1 THEN parts[1]
    ELSE parts[1] \o glue \o JoinWith(Tail(parts), glue)

\* what an utterance said: the dict {n: m} of its items [n, sep, m]
SaidMarks(items) ==
    [n \in {items[i].n : i \in DOMAIN items} |->
        items[CHOOSE i \in DOMAIN items : items[i].n = n].m]

\* between the question number and the marks: a comma, whitespace, a hyphen,
\* an en dash, an em dash
Separators ==
    {<<",", " ">>, <<" ">>, <<" ", "-", " ">>, <<" ", "endash", " ">>,
     <<" ", "emdash", " ">>}

\* "question N<sep>M marks"
PhraseItem(item) ==
    w_question \o <<" ">> \o str(item.n) \o item.sep \o str(item.m) \o <<" ">>
        \o w_marks

PhraseText(items) ==
    JoinWith([i \in DOMAIN items |-> PhraseItem(items[i])], <<",", " ">>)

\* the questions and marks of "question 1, 8 marks, question 3 - 7 marks,
\* question 6 - 9 marks, question 8 - 8 marks"
PhraseQuestions == <<1, 3, 6, 8>>
PhraseScores == <<8, 7, 9, 8>>

\* the first k of these phrases, each with a separator of its own
PhraseLists ==
    UNION {{[i \in 1..k |-> [n |-> PhraseQuestions[i], sep |-> seps[i],
                             m |-> PhraseScores[i]]] :
                seps \in [1..k -> Separators]} : k \in 1..MaxItems}

\* the utterance itself, with the en dash
PhraseScenario ==
    [i \in 1..4 |-> [n |-> PhraseQuestions[i],
                     sep |-> IF i = 1 THEN <<",", " ">> ELSE <<" ", "endash", " ">>,
                     m |-> PhraseScores[i]]]

\* "Q<n>-<m>"
ShortItem(item) == <<"Q">> \o str(item.n) \o <<"-">> \o str(item.m)

ShortText(items, glue) ==
    JoinWith([i \in DOMAIN items |-> ShortItem(items[i])], glue)

\* the questions of S in ascending order
RECURSIVE Ascending(_)
Ascending(S) == IF S = {} THEN <<>> ELSE <<Min(S)>> \o Ascending(S \ {Min(S)})

ShortScores == {0, 9, 10}

\* up to MaxItems items of distinct questions of 1..8
ShortLists ==
    UNION {{[i \in 1..Cardinality(S) |->
                [n |-> Ascending(S)[i], sep |-> <<"-">>, m |-> score[Ascending(S)[i]]]] :
                score \in [S -> ShortScores]} :
           S \in {T \in SUBSET (1..8) : T # {} /\ Cardinality(T) <= MaxItems}}

\* "Q1-8, Q4-8, Q5-9, Q7-6"
ShortScenario ==
    << [n |-> 1, sep |-> <<"-">>, m |-> 8], [n |-> 4, sep |-> <<"-">>, m |-> 8],
       [n |-> 5, sep |-> <<"-">>, m |-> 9], [n |-> 7, sep |-> <<"-">>, m |-> 6] >>

\* the calls: `said` is what the text was built from, `form` how
Utterances ==
    {[text |-> PhraseText(items), said |-> items, form |-> "phrases"] :
        items \in PhraseLists \cup {PhraseScenario}}
    \cup {[text |-> ShortText(items, glue), said |-> items, form |-> "short"] :
            items \in ShortLists \cup {ShortScenario},
            glue \in {<<",", " ">>, <<",">>}}

InitUtterance ==
    /\ arg \in Utterances
    /\ ret = None
    /\ usn_prefix = <<>>
    /\ students = <<>>
    /\ student_seq = 0
    /\ attendance = {}
    /\ ia_marks = {}
    /\ calls = <<>>

NextUtterance == ExtractMarks

SpecUtterance == InitUtterance /\ [][NextUtterance]_vars

\* C13 as stated: every "question N <sep> M marks" phrase of an utterance is
\* read into the entry N -> M, whether <sep> is a comma, whitespace, a hyphen,
\* an en dash or an em dash; the four phrases of the utterance "question 1, 8
\* marks, question 3 (en dash) 7 marks, ..." give {1:8, 3:7, 6:9, 8:8} with
\* total 32, a valid combination
PhrasesReadWithAnySeparator ==
    (ret # None /\ arg.form = "phrases")
    => /\ ret.value = SaidMarks(arg.said)
       /\ arg.said = PhraseScenario
            => /\ ret.value = (1 :> 8) @@ (3 :> 7) @@ (6 :> 9) @@ (8 :> 8)
               /\ sum_values(ret.value) = 32
               /\ validate_question_combination(ret.value)

\* C14: for an utterance that lists items "Q<n>-<m>" separated by commas,
\* the n distinct in 1..8 and the m in 0..10, extract_marks returns exactly
\* the dict n -> m of the items; "Q1-8, Q4-8, Q5-9, Q7-6" gives {1:8, 4:8,
\* 5:9, 7:6} with total 31, a valid combination
ShortItemsRead ==
    (ret # None /\ arg.form = "short")
    => /\ ret.value = SaidMarks(arg.said)
       /\ arg.said = ShortScenario
            => /\ ret.value = (1 :> 8) @@ (4 :> 8) @@ (5 :> 9) @@ (7 :> 6)
               /\ sum_values(ret.value) = 31
               /\ validate_question_combination(ret.value)

\* "Q1-8, Q4-8, Q5-9, Q7-6" has been read
ShortItemsWitness ==
    /\ ret # None
    /\ arg.text = <<"Q","1","-","8",","," ","Q","4","-","8",","," ",
                    "Q","5","-","9",","," ","Q","7","-","6">>
    /\ DOMAIN ret.value = {1, 4, 5, 7}

-----------------------------------------------------------------------------
(* extract_marks on utterances that name a question more than once          *)

MaxRepeats == 2

\* the ways to say one score, with the last of the patterns that reads it:
\* "question N, M marks" (1), "question N M marks" (2 and 3), "qN-M" (5),
\* "M marks in question N" (6)
RepeatKinds == {"comma", "space", "short", "in"}

PatternOf(kind) ==
    CASE kind = "comma" -> 1 [] kind = "space" -> 3 [] kind = "short" -> 5
      [] kind = "in" -> 6

RepeatItem(item) ==
    CASE item.kind = "comma" ->
            join(<<w_question, str(item.n) \o <<",">>, str(item.m), w_marks>>)
      [] item.kind = "space" -> join(<<w_question, str(item.n), str(item.m), w_marks>>)
      [] item.kind = "short" -> w_q \o str(item.n) \o <<"-">> \o str(item.m)
      [] item.kind = "in" ->
            join(<<str(item.m), w_marks, w_in, w_question, str(item.n)>>)

\* the items of an utterance, joined by "and"
RepeatText(items) ==
    JoinWith([i \in DOMAIN items |-> RepeatItem(items[i])], <<" ", "a", "n", "d", " ">>)

RepeatItems == [kind : RepeatKinds, n : {1, 2}, m : {5, 8, 11}]

RepeatLists == UNION {[1..k -> RepeatItems] : k \in 1..MaxRepeats}

\* "question N M marks in question K"
OverlapText(o) ==
    join(<<w_question, str(o.n), str(o.m), w_marks, w_in, w_question, str(o.k)>>)

Overlaps == [n : {1, 2, 9}, m : {8, 11}, k : {1, 2, 9}]

RepeatUtterances ==
    {[text |-> RepeatText(items), said |-> items, form |-> "repeat"] :
        items \in RepeatLists}
    \cup {[text |-> OverlapText(o), said |-> o, form |-> "overlap"] : o \in Overlaps}

InitRepeat ==
    /\ arg \in RepeatUtterances
    /\ ret = None
    /\ usn_prefix = <<>>
    /\ students = <<>>
    /\ student_seq = 0
    /\ attendance = {}
    /\ ia_marks = {}
    /\ calls = <<>>

NextRepeat == ExtractMarks

SpecRepeat == InitRepeat /\ [][NextRepeat]_vars

\* item i of the list is processed after item j: by a later pattern, or by
\* the same pattern further right in the text
ProcessedAfter(items, i, j) ==
    \/ PatternOf(items[i].kind) > PatternOf(items[j].kind)
    \/ PatternOf(items[i].kind) = PatternOf(items[j].kind) /\ i > j

\* the items whose score is in range
Accepted(items) == {i \in DOMAIN items : items[i].m <= 10}

\* C23: when an utterance names a question several times, the dict holds for
\* it the score of the in-range match processed last (the patterns in their
\* order, each left to right); a match out of range neither makes an entry
\* nor overwrites one.  (With no match in range the dict is empty and line
\* 318 turns to the flexible pattern.)
LastMatchWins ==
    (ret # None /\ arg.form = "repeat" /\ Accepted(arg.said) # {})
    => LET items == arg.said
       IN /\ DOMAIN ret.value = {items[i].n : i \in Accepted(items)}
          /\ \A i \in Accepted(items) :
                (\A j \in Accepted(items) :
                    (j # i /\ items[j].n = items[i].n) => ProcessedAfter(items, i, j))
                => ret.value[items[i].n] = items[i].m

\* "q1-5 and question 1, 8 marks" gives 5, the later pattern's score, and
\* "question 1 8 marks and question 1 11 marks" keeps the 8
LastMatchWitness ==
    /\ ret # None
    /\ arg.form = "repeat"
    /\ \/ /\ arg.text = join(<<w_q \o <<"1","-","5">>, <<"a","n","d">>, w_question, <<"1",",">>,
                              <<"8">>, w_marks>>)
          /\ ret.value = (1 :> 5)
       \/ /\ arg.text = join(<<w_question, <<"1">>, <<"8">>, w_marks, <<"a","n","d">>,
                              w_question, <<"1">>, <<"1","1">>, w_marks>>)
          /\ ret.value = (1 :> 8)

\* the numbers written in a text: its maximal runs of digits
NumbersIn(text) ==
    Cardinality({i \in DOMAIN text :
                    text[i] \in ReDigit /\ (i = 1 \/ text[i - 1] \notin ReDigit)})

\* the spans [start, end) of two matches share a position
Overlapping(m1, m2) == m1.start < m2.end /\ m2.start < m1.end

MatchesOf(i, text) == finditer(patterns[i].re, fix_transcription_errors(text))

\* C24 as stated: no span matched by a pattern is matched again by a later
\* pattern, and every number of the text contributes to at most one
\* (question, score) pair
NoNumberUsedTwice ==
    ret # None
    => /\ \A i, j \in DOMAIN patterns :
            i < j => \A a \in DOMAIN MatchesOf(i, arg.text) :
                        \A b \in DOMAIN MatchesOf(j, arg.text) :
                            ~Overlapping(MatchesOf(i, arg.text)[a], MatchesOf(j, arg.text)[b])
       /\ 2 * Cardinality(DOMAIN ret.value) <= NumbersIn(arg.text)

\* C24, amended: the matches of one pattern do not overlap one another, so
\* one pattern uses a number in at most one pair; every pattern scans the
\* whole text, so "question N M marks in question K" is read by "question N
\* M mark" as N -> M and by "M marks in question K" as K -> M (M in 0..10)
NoNumberUsedTwiceByOnePattern ==
    ret # None
    => /\ \A i \in DOMAIN patterns :
            LET ms == MatchesOf(i, arg.text)
            IN /\ \A a, b \in DOMAIN ms : a < b => ms[a].end <= ms[b].start
               /\ 2 * Len(ms) <= NumbersIn(arg.text)
       /\ (arg.form = "overlap" /\ arg.said.m <= 10)
            => LET o == arg.said
               IN /\ DOMAIN ret.value = {q \in {o.n, o.k} : q <= 8}
                  /\ \A q \in DOMAIN ret.value : ret.value[q] = o.m

\* "question 1 8 marks in question 2" has been read as {1: 8, 2: 8}
OverlapWitness ==
    /\ ret # None
    /\ arg.text = join(<<w_question, <<"1">>, <<"8">>, w_marks, w_in, w_question, <<"2">>>>)
    /\ ret.value = (1 :> 8) @@ (2 :> 8)

-----------------------------------------------------------------------------
(* fix_transcription_errors and extract_marks on merged digits               *)

MaxMerged == 9

\* what may follow the two digits: nothing, "mark", "marks", a third digit,
\* another number
MergedTails ==
    {<<>>, <<" ">> \o w_mark, <<" ">> \o w_marks, w_marks, <<"3">>, <<" ", "7">>}

\* "question<sp><a><b><tail>"
MergedText(o) ==
    w_question \o o.sp \o <<DigitChars[o.a + 1], DigitChars[o.b + 1]>> \o o.tail

MergedTexts ==
    {[text |-> MergedText(o), said |-> o, form |-> "merged"] :
        o \in [sp : {<<>>, <<" ">>}, a : 0..MaxMerged, b : 0..MaxMerged, tail : MergedTails]}

InitFix ==
    /\ arg \in MergedTexts
    /\ ret = None
    /\ usn_prefix = <<>>
    /\ students = <<>>
    /\ student_seq = 0
    /\ attendance = {}
    /\ ia_marks = {}
    /\ calls = <<>>

\* extract_marks(text), with the text line 279 hands to the patterns, and that
\* text corrected once more
ExtractMarksCorrected ==
    /\ ret = None
    /\ ret' = [value |-> extract_marks(arg.text),
               text |-> fix_transcription_errors(arg.text),
               twice |-> fix_transcription_errors(fix_transcription_errors(arg.text))]
    /\ UNCHANGED <<usn_prefix, students, student_seq, attendance, ia_marks, arg, calls>>

NextFix == ExtractMarksCorrected

SpecFix == InitFix /\ [][NextFix]_vars

\* the tail is "mark" or "marks", with or without a space before it
SaysMark(tail) == tail \in {<<" ">> \o w_mark, <<" ">> \o w_marks, w_marks}

\* C25: "question" with a two-digit number ab that no digit follows, and the
\* "mark(s)" after it if there is one, is rewritten to "question a b marks"
\* when a is in 1..8, and extract_marks then yields a -> b; when a is 0 or 9
\* the text is unchanged; correcting twice gives what correcting once gives
MergedDigitsSplit ==
    ret # None
    => LET o == arg.said
           split_up == join(<<w_question, <<DigitChars[o.a + 1]>>, <<DigitChars[o.b + 1]>>,
                              w_marks>>)
       IN /\ ret.twice = ret.text
          /\ o.a \in {0, 9} => ret.text = arg.text
          /\ (o.a \in 1..8 /\ o.tail # <<"3">>)
                => /\ ret.text = split_up \o (IF SaysMark(o.tail) THEN <<>> ELSE o.tail)
                   /\ o.a \in DOMAIN ret.value
                   /\ ret.value[o.a] = o.b

-----------------------------------------------------------------------------
(* extract_attendance_status on the normalized text of a command             *)

MaxStatusWords == 3

w_not == <<"n","o","t">>
w_represented == <<"r","e","p","r","e","s","e","n","t","e","d">>

\* the words of a transcript; some hold "present" or "absent", in any case
StatusWords ==
    {n_asha, w_is, w_not, w_here, w_present, w_absent, <<"P">> \o Tail(w_present),
     <<"A","B","S","E","N","T">>, w_represented}

SaysPresent == {w_present, <<"P">> \o Tail(w_present), w_represented}
SaysAbsent == {w_absent, <<"A","B","S","E","N","T">>}

StatusTexts ==
    {[text |-> join(ws), said |-> ws, form |-> "status"] :
        ws \in UNION {[1..n -> StatusWords] : n \in 1..MaxStatusWords}}

InitStatus ==
    /\ arg \in StatusTexts
    /\ ret = None
    /\ usn_prefix = <<>>
    /\ students = <<>>
    /\ student_seq = 0
    /\ attendance = {}
    /\ ia_marks = {}
    /\ calls = <<>>

\* lines 111 and 121: the status read from the normalized text
ExtractAttendanceStatus ==
    /\ ret = None
    /\ ret' = [value |-> extract_attendance_status(strip(lower(arg.text)))]
    /\ UNCHANGED <<usn_prefix, students, student_seq, attendance, ia_marks, arg, calls>>

NextStatus == ExtractAttendanceStatus

SpecStatus == InitStatus /\ [][NextStatus]_vars

\* C27: the status is Present if the normalized transcript holds "present",
\* otherwise Absent if it holds "absent", otherwise none; when it holds both
\* the status is Present, whichever comes first
PresentBeforeAbsent ==
    ret # None
    => LET ws == arg.said
           present == \E i \in DOMAIN ws : ws[i] \in SaysPresent
           absent == \E i \in DOMAIN ws : ws[i] \in SaysAbsent
       IN ret.value = (IF present THEN "Present" ELSE IF absent THEN "Absent" ELSE "None")

\* "asha absent present" and "Present not absent" have both been read as
\* Present
PresentBeforeAbsentWitness ==
    /\ ret # None
    /\ arg.said \in {<<n_asha, w_absent, w_present>>,
                     <<<<"P">> \o Tail(w_present), w_not, w_absent>>}
    /\ ret.value = "Present"

-----------------------------------------------------------------------------
(* database.py: the store's operations called in any order                   *)

MaxStoreId == 3

\* the CSV files uploaded: one student, two students, a roll number twice
StoreCsvs ==
    { << [usn |-> <<"u","1">>, name |-> n_asha] >>,
      << [usn |-> <<"u","1">>, name |-> n_asha], [usn |-> <<"u","2">>, name |-> n_zed] >>,
      << [usn |-> <<"u","1">>, name |-> n_asha], [usn |-> <<"u","1">>, name |-> n_zed] >> }

StoreMarks == (1 :> 8) @@ (3 :> 7) @@ (5 :> 9) @@ (7 :> 8)

InitStore ==
    /\ usn_prefix = <<>>
    /\ students = <<>>
    /\ student_seq = 0
    /\ attendance = {}
    /\ ia_marks = {}
    /\ arg = None
    /\ ret = None
    /\ calls = <<>>

\* the ids of the rows of the students table
StudentIds == {students[i].id : i \in DOMAIN students}

\* load_students_from_csv(df): DELETE FROM students and an INSERT per row in
\* one transaction; AUTOINCREMENT gives ids above every id given before; a
\* roll number met twice raises, and nothing is committed
LoadStudentsFromCsv ==
    \E csv \in StoreCsvs :
        /\ student_seq + Len(csv) <= MaxStoreId
        /\ arg' = [op |-> "load_students_from_csv", df |-> csv]
        /\ IF \E i, j \in DOMAIN csv : i # j /\ strip(csv[i].usn) = strip(csv[j].usn)
           THEN /\ ret' = [success |-> FALSE, message |-> "Error loading students: {e}"]
                /\ UNCHANGED <<students, student_seq>>
           ELSE /\ ret' = [success |-> TRUE, message |-> "Successfully loaded {len} students"]
                /\ students' = [i \in DOMAIN csv |->
                                   [id |-> student_seq + i, usn |-> strip(csv[i].usn),
                                    name |-> strip(csv[i].name)]]
                /\ student_seq' = student_seq + Len(csv)
        /\ UNCHANGED <<usn_prefix, attendance, ia_marks, calls>>

\* record_attendance for a student of the table
RecordAttendance ==
    \E id \in StudentIds, status \in {"Present", "Absent"} :
        LET written == record_attendance(attendance, id, "2024-01-01", status)
        IN /\ arg' = [op |-> "record_attendance", student_id |-> id, status |-> status]
           /\ ret' = [success |-> written.success, message |-> written.message]
           /\ attendance' = written.table
           /\ UNCHANGED <<usn_prefix, students, student_seq, ia_marks, calls>>

\* record_ia_marks for a student of the table
RecordIaMarks ==
    \E id \in StudentIds :
        LET written == record_ia_marks(ia_marks, id, "IA1", StoreMarks,
                                       sum_values(StoreMarks))
        IN /\ arg' = [op |-> "record_ia_marks", student_id |-> id]
           /\ ret' = [success |-> written.success, message |-> written.message]
           /\ ia_marks' = written.table
           /\ UNCHANGED <<usn_prefix, students, student_seq, attendance, calls>>

\* DELETE FROM attendance
ClearAttendance ==
    /\ arg' = [op |-> "clear_attendance"]
    /\ ret' = [success |-> TRUE]
    /\ attendance' = {}
    /\ UNCHANGED <<usn_prefix, students, student_seq, ia_marks, calls>>

\* DELETE FROM ia_marks
ClearMarks ==
    /\ arg' = [op |-> "clear_marks"]
    /\ ret' = [success |-> TRUE]
    /\ ia_marks' = {}
    /\ UNCHANGED <<usn_prefix, students, student_seq, attendance, calls>>

\* DELETE FROM students, attendance and ia_marks; the ids given stay given
ResetDatabase ==
    /\ arg' = [op |-> "reset_database"]
    /\ ret' = [success |-> TRUE]
    /\ students' = <<>>
    /\ attendance' = {}
    /\ ia_marks' = {}
    /\ UNCHANGED <<usn_prefix, student_seq, calls>>

NextStore ==
    \/ LoadStudentsFromCsv
    \/ RecordAttendance
    \/ RecordIaMarks
    \/ ClearAttendance
    \/ ClearMarks
    \/ ResetDatabase

SpecStore == InitStore /\ [][NextStore]_vars

\* C30: every attendance record and every marks record of the store refers
\* to a row of the students table, whatever operations were called, also
\* after the roster was loaded again while earlier records remain
RecordsReferToStudents ==
    /\ \A r \in attendance : r.student_id \in StudentIds
    /\ \A r \in ia_marks : r.student_id \in StudentIds

-----------------------------------------------------------------------------
(* fuzzy_find_student on drawn rosters and identifiers                       *)

MaxRoster == 2

\* the students a roster is drawn from: two of them share a name, and the
\* name of the last is the roll number of the first
MatchPool ==
    << [usn |-> <<"u","1">>, name |-> n_asha],
       [usn |-> <<"u","2">>, name |-> lower(n_asha)],
       [usn |-> <<"u","3">>, name |-> n_asho],
       [usn |-> <<"u","4">>, name |-> <<"b","o","b">>],
       [usn |-> <<"u","5">>, name |-> <<"U","1">>] >>

\* the students of places f[1], f[2], ... of the pool, loaded in that order
RosterOf(f) ==
    <<>> \o [i \in DOMAIN f |->
                [id |-> i, usn |-> MatchPool[f[i]].usn, name |-> MatchPool[f[i]].name]]

Rosters ==
    {RosterOf(f) : f \in UNION {{g \in [1..n -> DOMAIN MatchPool] :
                                     \A i, j \in 1..n : i # j => g[i] # g[j]} :
                                n \in 0..MaxRoster}}

MatchIdentifiers ==
    { n_asha, lower(n_asha), <<"a","s","h">>, <<"a","s","h","i">>, <<"b","o">>,
      <<"U","1">>, <<"u","5">>, n_zed }

InitMatch ==
    /\ students \in Rosters
    /\ student_seq = Len(students)
    /\ arg \in {[identifier |-> i] : i \in MatchIdentifiers}
    /\ ret = None
    /\ usn_prefix = <<>>
    /\ attendance = {}
    /\ ia_marks = {}
    /\ calls = <<>>

\* self.db_manager.fuzzy_find_student(identifier)
FindStudent ==
    /\ ret = None
    /\ ret' = [value |-> fuzzy_find_student(students, arg.identifier)]
    /\ UNCHANGED <<usn_prefix, students, student_seq, attendance, ia_marks, arg, calls>>

NextMatch == FindStudent

SpecMatch == InitMatch /\ [][NextMatch]_vars

\* the keys of the roster, and who owns them
KeysOf(rows) ==
    {lower(rows[i].usn) : i \in DOMAIN rows} \cup {lower(rows[i].name) : i \in DOMAIN rows}
Owns(row, k) == lower(row.usn) = k \/ lower(row.name) = k
\* the entry the lookup holds for a key: the last one loaded with it
Owner(rows, k) == rows[Max({i \in DOMAIN rows : Owns(rows[i], k)})]
\* no key of the roster is more similar to q than k is
IsBest(rows, q, k) ==
    k \in KeysOf(rows) /\ \A k2 \in KeysOf(rows) : ~Greater(ratio(q, k2), ratio(q, k))
\* the place of a key among the keys, roll number before name, student by
\* student
PlaceOf(rows, k) ==
    Min({2 * i - 1 : i \in {j \in DOMAIN rows : lower(rows[j].usn) = k}}
        \cup {2 * i : i \in {j \in DOMAIN rows : lower(rows[j].name) = k}})
\* two different students are equally good matches for q
Ambiguous(rows, q) ==
    \E i, j \in DOMAIN rows :
        /\ i # j
        /\ \E ki, kj \in KeysOf(rows) :
              /\ Owns(rows[i], ki) /\ IsBest(rows, q, ki)
              /\ Owns(rows[j], kj) /\ IsBest(rows, q, kj)

\* C6: the matcher returns the student owning a best-scoring key if and only
\* if that key's similarity to the lowercased identifier is at least 70; with
\* a lower best score, or an empty roster, it returns no student
MatchedIffBestReachesCutoff ==
    ret # None
    => LET q == lower(arg.identifier)
       IN IF students # <<>> /\ \E k \in KeysOf(students) : AtLeast(ratio(q, k), 70)
          THEN \E k \in KeysOf(students) :
                  IsBest(students, q, k) /\ ret.value = Owner(students, k)
          ELSE ret.value = NoStudent

\* "bo" has found Bob, whose name scores 80
MatchedWitness ==
    /\ ret # None
    /\ arg.identifier = <<"b","o">>
    /\ ret.value # NoStudent
    /\ ret.value.name = <<"b","o","b">>

\* C7 as stated: when two different students are equally good matches for the
\* identifier, the matcher returns no student
AmbiguityIsNotFound ==
    (ret # None /\ Ambiguous(students, lower(arg.identifier)))
    => ret.value = NoStudent

\* C7, amended: the matcher returns at most one student, and ambiguity is not
\* a failure: when two different students are equally good matches with a
\* similarity of at least 70, it returns one of them, the owner of the first
\* best-scoring key in roster order, which for a key two students share is the
\* student loaded last
AmbiguityResolvedInRosterOrder ==
    ret # None
    => LET q == lower(arg.identifier)
           best == {k \in KeysOf(students) : IsBest(students, q, k)}
           first == CHOOSE k \in best :
                       \A k2 \in best : PlaceOf(students, k) <= PlaceOf(students, k2)
       IN /\ ret.value = NoStudent \/ \E i \in DOMAIN students : ret.value = students[i]
          /\ (Ambiguous(students, q) /\ \E k \in best : AtLeast(ratio(q, k), 70))
             => ret.value = Owner(students, first)

\* of two students named Asha the one loaded last was returned
AmbiguityWitness ==
    /\ ret # None
    /\ Len(students) = 2
    /\ lower(students[1].name) = lower(students[2].name)
    /\ arg.identifier = n_asha
    /\ ret.value = students[2]
\* C26 as stated: an identifier equal, whatever the case, to the roll number
\* of a student finds that student, also when it is the name of another
\* student; equal to no roll number but to a name, it finds a student of
\* that name; similarity decides only when it equals neither
ExactRollNumberThenName ==
    ret # None
    => LET q == lower(arg.identifier)
           same_usn == {i \in DOMAIN students : lower(students[i].usn) = q}
           same_name == {i \in DOMAIN students : lower(students[i].name) = q}
       IN /\ same_usn # {} => \E i \in same_usn : ret.value = students[i]
          /\ (same_usn = {} /\ same_name # {})
                => \E i \in same_name : ret.value = students[i]

\* C26, amended: an identifier equal, whatever the case, to a roll number or
\* a name of the roster finds the student loaded last among those it is the
\* roll number or the name of: a later student of that name comes before an
\* earlier student of that roll number
ExactKeyFindsLastOwner ==
    ret # None
    => LET q == lower(arg.identifier)
           same == {i \in DOMAIN students :
                        lower(students[i].usn) = q \/ lower(students[i].name) = q}
       IN same # {} => ret.value = students[Max(same)]

\* "U1" is the roll number of the first student and the name of the second,
\* and has found the second
ExactKeyWitness ==
    /\ ret # None
    /\ arg.identifier = <<"U","1">>
    /\ Len(students) = 2
    /\ students[1].usn = <<"u","1">>
    /\ students[2].name = <<"U","1">>
    /\ ret.value = students[2]

====
